---------------------------- MODULE Spec2Model ----------------------------
(***************************************************************************)
(* Model of monad_monitor: the Huginn client (circuit breaker, retry       *)
(* wrapper, round resolution, per-validator status cache), the             *)
(* cross-validator and the validator lifecycle state machine with the      *)
(* part of the monitoring loop that drives it.                             *)
(*                                                                         *)
(* Python's Optional[T] is modelled as a sequence: None is << >> and a     *)
(* present value v is <<v>>.  An exception that leaves a function is       *)
(* modelled by a `raised` flag in the result of the operator.  A call is   *)
(* one atomic step taken at one clock value, except in SpecRace, where the *)
(* breaker's methods are taken apart statement by statement; the sleeps    *)
(* between retries and the latency of the servers are not modelled.        *)
(*                                                                         *)
(* The specifications share the variables:                                 *)
(*   SpecSM      lifecycle state machine and monitoring loop               *)
(*   SpecPersist lifecycle state machine, state file and restart           *)
(*   SpecCB      circuit breaker and retry wrapper                         *)
(*   SpecRound   direct calls of the round resolution                      *)
(*   SpecClient  status lookups of the client and the cross-validator      *)
(*   SpecRace    two callers inside the circuit breaker at the same time   *)
(*   SpecLoop    whole iterations of the monitoring loop, with alerting    *)
(*   SpecAlert   lifecycle state machine asked whether to alert            *)
(*   SpecNetworks one client serving two networks                          *)
(*   SpecKeys    the public key matching of the gmonads client             *)
(*   SpecShutdown the process from start to shutdown signal and restart    *)
(***************************************************************************)
EXTENDS Integers, Sequences, FiniteSets, TLC

None == << >>

Some(x) == <<x>>

IsSome(o) == o # None

\* the value of a local variable: S is {e(x) : x \in {v}}, so that v is
\* computed once and e sees its value
The(S) == CHOOSE v \in S : TRUE

Val(o) == o[1]

(***************************************************************************)
(* Bounds of the model.                                                    *)
(***************************************************************************)
\* longest transition history explored
MaxHistory == 2

\* last clock value of the lifecycle specification
MaxSMTime == 2

\* clock advances explored by the circuit-breaker specification
MaxCBTicks == 2

\* _fetch_with_retry calls made by the concurrent callers together
MaxRaceCalls == 7

\* clock advances while callers run concurrently
MaxRaceTicks == 1

\* largest failure_count explored (the counter itself is unbounded)
MaxFailures == 6

\* clock advances explored by the round-resolution specification
MaxRoundTicks == 1

\* clock advances explored by the client specification
MaxClientTicks == 1

\* client operations explored by the client specification
MaxClientCalls == 2

\* iterations of the monitoring loop over the validator
MaxLoopIterations == 4

\* clock advances between iterations of the monitoring loop
MaxLoopTicks == 1

\* passes of the `while running` loop explored per process run
MaxPasses == 1

\* process restarts explored after a shutdown
MaxRestarts == 1


(***************************************************************************)
(* state_machine.py: ValidatorState (NEW is a reserved word of TLA+)       *)
(***************************************************************************)
S_NEW == "new"

S_ACTIVE == "active"

S_INACTIVE == "inactive"

ValidatorState == {S_NEW, S_ACTIVE, S_INACTIVE}

\* the name the monitored validator is configured with
ConfiguredName == "val-1"

DEFAULT_VALIDATOR_NAME == "unknown"

(***************************************************************************)
(* JSON values of the persisted state: a string, a number, or a value of   *)
(* another type (list, bool, object).                                      *)
(***************************************************************************)
JStr(s) == [t |-> "str", s |-> s, n |-> 0]

JNum(n) == [t |-> "num", s |-> "", n |-> n]

JOther == [t |-> "other", s |-> "", n |-> 0]

(***************************************************************************)
(* huginn.py: constants                                                    *)
(***************************************************************************)
MAX_RETRIES == 3

CIRCUIT_BREAKER_FAILURE_THRESHOLD == 5

CIRCUIT_BREAKER_RECOVERY_TIME == 60

ACTIVE_SET_ROUND_THRESHOLD == 10000

\* REFERENCE_VALIDATOR_IDS, the same list for both networks
REFERENCE_VALIDATOR_IDS == <<1, 2, 3, 4, 5>>

\* HuginnClient._network_round_ttl
NETWORK_ROUND_TTL == 300

\* HuginnConfig.check_interval
CHECK_INTERVAL == 3600

\* CircuitState
CLOSED == "CLOSED"

OPEN == "OPEN"

HALF_OPEN == "HALF_OPEN"

Networks == {"testnet", "mainnet"}

VARIABLES
    now,                 \* time.time()
    ticks,               \* number of clock advances so far
    op,                  \* name of the operation executed last
    \* ---- circuit breaker and retry wrapper ----
    circuit_breakers,    \* HuginnClient._circuit_breakers: network -> breaker, None until created
    cb_ret,              \* what can_execute() returned in the last operation, if it was called
    fetch_ret,           \* what _fetch_with_retry returned in the last operation: a response or None
    http_attempts,       \* requests.get calls made by the last operation
    consecutive_failures,\* record_failure() calls since the last record_success(), per network,
                         \* as counted by the actions of the breaker specification
    \* ---- concurrent callers of _fetch_with_retry ----
    race_pc,             \* caller -> the statement it executes next
    race_tmp,            \* caller -> the failure_count it loaded for `+= 1`
    race_calls,          \* _fetch_with_retry calls started so far
    race_failures,       \* record_failure() calls started so far
    race_success,        \* whether record_success() has been called
    \* ---- Huginn client ----
    network_rounds,      \* HuginnClient._network_rounds: network -> cached round, None if absent
    network_round_times, \* HuginnClient._network_round_times
    round_ret,           \* outcome of the last _get_current_network_round call
    round_probe,         \* what that call met: cache age, hinted query, reference queries
    round_populated,     \* network -> whether _network_rounds ever held a round for it
    cache,               \* HuginnClient._cache: cache key -> ValidatorUptime, None if absent
    cache_times,         \* HuginnClient._cache_times
    uptime_ret,          \* outcome of the last get_validator_uptime call
    uptime_probe,        \* what that call met: cached record, round lookup, own response
    status_ret,          \* what is_validator_active / get_active_set_status returned last
    cv_ret,              \* the CrossValidationResult returned last
    client_calls,        \* number of client operations so far
    \* ---- lifecycle state machine and monitoring loop ----
    machine,             \* state_machines[v.name]: a ValidatorStateMachine
    sm_ret,              \* what update() returned in the last operation / the loop's `transition`
    update_args,         \* <<is_active, is_ever_active>> the last operation passed to update(), if it called it
    transitions_returned,\* update() calls on this machine object that returned a transition
    obs,                 \* the observation the last loop step worked on
    alert_sent,          \* state-transition alert dispatched by the last loop step
    state_file,          \* the persisted state file of the validator
    load_ret,            \* the machine load_state returned at the last process start
    alert_ret,           \* the last should_alert_on call: alert type, state, answer
    fetch_probe,         \* the last _fetch_with_retry call: the breaker it met, what its
                         \* attempts yielded, what it recorded
    key_probe,           \* the keys handed to the gmonads key matching, and its answers
    \* ---- health check and alerting of the monitoring loop ----
    last_commits,        \* states[v.name]["last_commits"]
    fails,               \* states[v.name]["fails"]
    alert_active,        \* states[v.name]["alert_active"]
    critical_sent,       \* message handed to alerts.alert_critical by the last iteration
    vs_ret,              \* what get_validator_status returned in the last iteration
    loop_probe,          \* the gmonads verdict and local metrics the last iteration met
    loop_iterations,     \* iterations of the loop so far
    \* ---- the process with two validators configured ----
    proc                 \* main(): the running flag, the position in the loop, the state
                         \* machines, the state files and what the last shutdown saved

smVars == <<machine, sm_ret, update_args, transitions_returned, obs, alert_sent, state_file>>

cbVars == <<circuit_breakers, cb_ret, fetch_ret, http_attempts, consecutive_failures>>

roundVars == <<network_rounds, network_round_times, round_ret, round_probe, round_populated>>

clientVars == <<cache, cache_times, uptime_ret, uptime_probe, status_ret, cv_ret, client_calls>>

loopVars ==
    <<last_commits, fails, alert_active, critical_sent, vs_ret, loop_probe, loop_iterations,
      proc>>

raceVars == <<race_pc, race_tmp, race_calls, race_failures, race_success>>

vars ==
    <<now, ticks, op, smVars, load_ret, alert_ret, fetch_probe, key_probe, cbVars, raceVars, roundVars, clientVars, loopVars>>

(***************************************************************************)
(* ValidatorStateMachine                                                   *)
(***************************************************************************)
\* __init__
NewMachine(name, initial_state, t) ==
    [validator_name |-> name,
     current_state |-> IF IsSome(initial_state) THEN Val(initial_state) ELSE S_NEW,
     state_entered_at |-> t,
     transition_history |-> << >>]

\* update(): the state the arguments ask for
TargetState(is_active, is_ever_active) ==
    IF is_active THEN S_ACTIVE
    ELSE IF is_ever_active THEN S_INACTIVE
    ELSE S_NEW

\* update() without the early return for an unchanged state
update_NoEarlyReturn(m, is_active, is_ever_active, metadata, t) ==
    LET new_state == TargetState(is_active, is_ever_active)
        transition == [from_state |-> m.current_state,
                       to_state |-> new_state,
                       validator_name |-> m.validator_name,
                       timestamp |-> t,
                       metadata |-> metadata]
    IN  <<[m EXCEPT !.current_state = new_state,
                    !.state_entered_at = t,
                    !.transition_history = Append(@, transition)],
          Some(transition)>>

\* update(): <<machine after the call, returned value>>
update(m, is_active, is_ever_active, metadata, t) ==
    LET new_state == TargetState(is_active, is_ever_active)
        transition == [from_state |-> m.current_state,
                       to_state |-> new_state,
                       validator_name |-> m.validator_name,
                       timestamp |-> t,
                       metadata |-> metadata]
    IN  IF new_state = m.current_state
        THEN <<m, None>>
        ELSE <<[m EXCEPT !.current_state = new_state,
                         !.state_entered_at = t,
                         !.transition_history = Append(@, transition)],
               Some(transition)>>

\* StateTransition.is_significant
is_significant(tr) == tr.from_state # tr.to_state

\* StateTransition.get_alert_message, by the headline of the message
get_alert_message(tr) ==
    IF tr.from_state = S_NEW /\ tr.to_state = S_ACTIVE THEN "ENTERED ACTIVE SET"
    ELSE IF tr.from_state = S_ACTIVE /\ tr.to_state = S_INACTIVE THEN "LEFT ACTIVE SET"
    ELSE IF tr.from_state = S_INACTIVE /\ tr.to_state = S_ACTIVE THEN "RE-ENTERED ACTIVE SET"
    ELSE "State changed"

\* to_dict()
\* to_dict writing the state's name in upper case instead of its value
to_dict_WritesName(m) ==
    [is_dict |-> TRUE,
     validator_name |-> Some(JStr(m.validator_name)),
     current_state |-> Some(JStr(IF m.current_state = S_ACTIVE THEN "ACTIVE" ELSE m.current_state)),
     state_entered_at |-> Some(JNum(m.state_entered_at)),
     transition_count |-> Some(JNum(Len(m.transition_history)))]

to_dict(m) ==
    [is_dict |-> TRUE,
     validator_name |-> Some(JStr(m.validator_name)),
     current_state |-> Some(JStr(m.current_state)),
     state_entered_at |-> Some(JNum(m.state_entered_at)),
     transition_count |-> Some(JNum(Len(m.transition_history)))]

\* a JSON document that is not an object (null, a string, a list)
NotADict ==
    [is_dict |-> FALSE, validator_name |-> None, current_state |-> None,
     state_entered_at |-> None, transition_count |-> None]

\* from_dict giving up the whole document when the name is unusable
from_dict_DefaultsBoth(data, t) ==
    IF ~data.is_dict
    THEN NewMachine(DEFAULT_VALIDATOR_NAME, Some(S_NEW), t)
    ELSE LET vn == data.validator_name
             name == IF IsSome(vn) /\ Val(vn).t = "str" /\ Val(vn).s # ""
                     THEN Val(vn).s ELSE DEFAULT_VALIDATOR_NAME
             cs == data.current_state
             initial_state == IF name # DEFAULT_VALIDATOR_NAME /\ IsSome(cs) /\ Val(cs).t = "str" /\ Val(cs).s \in ValidatorState
                              THEN Val(cs).s ELSE S_NEW
             m == NewMachine(name, Some(initial_state), t)
         IN  [m EXCEPT !.state_entered_at =
                  IF IsSome(data.state_entered_at) THEN Val(data.state_entered_at).n ELSE t]

\* from_dict(); t is time.time()
from_dict(data, t) ==
    IF ~data.is_dict
    THEN NewMachine(DEFAULT_VALIDATOR_NAME, Some(S_NEW), t)
    ELSE LET vn == data.validator_name
             name == IF IsSome(vn) /\ Val(vn).t = "str" /\ Val(vn).s # ""
                     THEN Val(vn).s ELSE DEFAULT_VALIDATOR_NAME
             cs == data.current_state
             initial_state == IF IsSome(cs) /\ Val(cs).t = "str" /\ Val(cs).s \in ValidatorState
                              THEN Val(cs).s ELSE S_NEW
             m == NewMachine(name, Some(initial_state), t)
         IN  [m EXCEPT !.state_entered_at =
                  IF IsSome(data.state_entered_at) THEN Val(data.state_entered_at).n ELSE t]

\* the state file: absent, empty, unreadable, not JSON, or a JSON document
MissingFile == [kind |-> "missing", data |-> NotADict]

JsonFile(d) == [kind |-> "json", data |-> d]

\* load_state(); t is time.time()
load_state(file, t) ==
    IF file.kind = "json"
    THEN from_dict(file.data, t)
    ELSE NewMachine(DEFAULT_VALIDATOR_NAME, Some(S_NEW), t)

(***************************************************************************)
(* The monitoring loop of main(), as far as it drives the state machine.   *)
(* An observation is what ValidatorHealthChecker.check hands back:         *)
(* metrics (were the node's metrics fetched), is_active_validator (true,   *)
(* false or None) and huginn_data (None or the Huginn record).  With a     *)
(* Huginn record is_active_validator is the record's is_active, which is   *)
(* true only if a round difference was computed.                           *)
(***************************************************************************)
OptBool == {None, Some(TRUE), Some(FALSE)}

\* round_diff of a Huginn record: absent, or some number of rounds
ObsRoundDiffs == {None, Some(5)}

Observations ==
    {[metrics |-> FALSE, is_active_validator |-> None, huginn_data |-> None]}
    \cup {[metrics |-> TRUE, is_active_validator |-> a, huginn_data |-> None] : a \in OptBool}
    \cup {[metrics |-> TRUE, is_active_validator |-> Some(h.is_active), huginn_data |-> Some(h)] :
            h \in {x \in [is_active : BOOLEAN, is_ever_active : BOOLEAN, round_diff : ObsRoundDiffs] :
                     x.is_active => IsSome(x.round_diff)}}

\* Python truth value of an Optional[bool]
Truthy(b) == IsSome(b) /\ Val(b)

\* the loop handing is_ever_active to update() as observed, without inferring
\* it from the current state
MonitorUpdate_NoInference(m, o, t) ==
    LET is_active == o.is_active_validator
        is_ever_active == IF IsSome(o.huginn_data) THEN Val(o.huginn_data).is_ever_active ELSE FALSE
        metadata == IF IsSome(o.huginn_data) THEN Some(Val(o.huginn_data).round_diff) ELSE None
    IN  IF m.current_state = S_NEW /\ is_ever_active
        THEN [machine |-> [m EXCEPT !.current_state = IF Truthy(is_active) THEN S_ACTIVE ELSE S_INACTIVE,
                                    !.state_entered_at = t],
              transition |-> None,
              update_args |-> None]
        ELSE LET arg == IF IsSome(is_active) THEN Val(is_active) ELSE FALSE
                 r == update(m, arg, is_ever_active, metadata, t)
             IN  [machine |-> r[1], transition |-> r[2], update_args |-> Some(<<arg, is_ever_active>>)]

\* an observation that does not settle is_active: no status at all, or a
\* Huginn record built without a round comparison for an ever-active
\* validator (the record whose confidence is 'unknown')
Indeterminate(o) ==
    \/ o.is_active_validator = None
    \/ /\ IsSome(o.huginn_data)
       /\ ~Val(o.huginn_data).is_active
       /\ Val(o.huginn_data).is_ever_active
       /\ Val(o.huginn_data).round_diff = None

\* the loop leaving the machine alone on an indeterminate observation
MonitorUpdate_SkipsIndeterminate(m, o, t) ==
    LET is_active == o.is_active_validator
        is_ever_active == IF IsSome(o.huginn_data) THEN Val(o.huginn_data).is_ever_active ELSE FALSE
        metadata == IF IsSome(o.huginn_data) THEN Some(Val(o.huginn_data).round_diff) ELSE None
    IN  IF m.current_state = S_NEW /\ is_ever_active
        THEN [machine |-> [m EXCEPT !.current_state = IF Truthy(is_active) THEN S_ACTIVE ELSE S_INACTIVE,
                                    !.state_entered_at = t],
              transition |-> None,
              update_args |-> None]
        ELSE IF Indeterminate(o)
        THEN [machine |-> m, transition |-> None, update_args |-> None]
        ELSE LET inferred == IF is_ever_active = FALSE /\ m.current_state # S_NEW
                             THEN TRUE ELSE is_ever_active
                 arg == IF IsSome(is_active) THEN Val(is_active) ELSE FALSE
                 r == update(m, arg, inferred, metadata, t)
             IN  [machine |-> r[1], transition |-> r[2], update_args |-> Some(<<arg, inferred>>)]

\* the loop without the direct assignment on a first observation
MonitorUpdate_AlwaysUpdate(m, o, t) ==
    LET is_active == o.is_active_validator
        is_ever_active == IF IsSome(o.huginn_data) THEN Val(o.huginn_data).is_ever_active ELSE FALSE
        metadata == IF IsSome(o.huginn_data) THEN Some(Val(o.huginn_data).round_diff) ELSE None
        inferred == IF is_ever_active = FALSE /\ m.current_state # S_NEW
                    THEN TRUE ELSE is_ever_active
        arg == IF IsSome(is_active) THEN Val(is_active) ELSE FALSE
        r == update(m, arg, inferred, metadata, t)
    IN  [machine |-> r[1], transition |-> r[2], update_args |-> Some(<<arg, inferred>>)]

\* main(), "Update state machine with validator status": the machine after
\* the step, the loop's `transition`, and the arguments of update() if it was called
MonitorUpdate(m, o, t) ==
    LET is_active == o.is_active_validator
        is_ever_active == IF IsSome(o.huginn_data) THEN Val(o.huginn_data).is_ever_active ELSE FALSE
        metadata == IF IsSome(o.huginn_data) THEN Some(Val(o.huginn_data).round_diff) ELSE None
    IN  IF m.current_state = S_NEW /\ is_ever_active
        THEN [machine |-> [m EXCEPT !.current_state = IF Truthy(is_active) THEN S_ACTIVE ELSE S_INACTIVE,
                                    !.state_entered_at = t],
              transition |-> None,
              update_args |-> None]
        ELSE LET inferred == IF is_ever_active = FALSE /\ m.current_state # S_NEW
                             THEN TRUE ELSE is_ever_active
                 arg == IF IsSome(is_active) THEN Val(is_active) ELSE FALSE
                 r == update(m, arg, inferred, metadata, t)
             IN  [machine |-> r[1], transition |-> r[2], update_args |-> Some(<<arg, inferred>>)]

\* main(), "Handle state transitions with alerts": the alert handed to alerts.alert_info
TransitionAlert(transition) ==
    IF IsSome(transition) /\ is_significant(Val(transition))
    THEN Some(get_alert_message(Val(transition)))
    ELSE None

NoObservation == [metrics |-> FALSE, is_active_validator |-> None, huginn_data |-> None]

InitSM ==
    /\ machine = NewMachine(ConfiguredName, None, 1)
    /\ sm_ret = None
    /\ update_args = None
    /\ transitions_returned = 0
    /\ obs = NoObservation
    /\ alert_sent = None
    /\ state_file = MissingFile
    /\ load_ret = None
    /\ alert_ret = None

\* no _fetch_with_retry call in the last operation
NoFetchProbe ==
    [called |-> FALSE, prior_state |-> CLOSED, first |-> 0, terminal |-> None,
     mixed |-> FALSE, records |-> << >>]

InitCB ==
    /\ circuit_breakers = [n \in Networks |-> None]
    /\ cb_ret = None
    /\ fetch_ret = None
    /\ fetch_probe = NoFetchProbe
    /\ http_attempts = 0
    /\ consecutive_failures = [n \in Networks |-> 0]

\* get_validator_status has not been called
NoValidatorStatus == [is_active |-> None, source |-> "none", huginn_data |-> None]

NoLoopProbe == [gmonads |-> None, local |-> None]

\* main(), "Load persisted state for each validator": states[v.name]
InitLoop ==
    /\ last_commits = None
    /\ fails = 0
    /\ alert_active = FALSE
    /\ critical_sent = None
    /\ vs_ret = NoValidatorStatus
    /\ loop_probe = NoLoopProbe
    /\ loop_iterations = 0

\* two callers share one client
Callers == {1, 2}

InitRace ==
    /\ race_pc = [t \in Callers |-> "idle"]
    /\ race_tmp = [t \in Callers |-> 0]
    /\ race_calls = 0
    /\ race_failures = 0
    /\ race_success = FALSE

\* a call that has not happened
NoRoundResult == [raised |-> FALSE, round |-> None, from_cache |-> FALSE]

NoRoundProbe ==
    [cache_hit |-> FALSE, hint_round |-> None, ref_rounds |-> {}, ref_queries |-> 0,
     prior |-> None, gmonads_called |-> FALSE, hint_queried |-> FALSE]

\* str.lower() on the addresses of the model
Lower(secp) == IF secp = "0xAbC" THEN "0xabc" ELSE secp

\* a cache key that leaves the network out
CacheKey_AddressOnly(network, secp_address) == <<"testnet", Lower(secp_address)>>

\* f"{network.lower()}:{secp_address.lower()}"
CacheKey(network, secp_address) == <<network, Lower(secp_address)>>

CacheKeys == {CacheKey(n, "0xAbC") : n \in Networks}

NoUptimeResult == [raised |-> FALSE, value |-> None]

NoUptimeProbe ==
    [cache_hit |-> FALSE, prior |-> None, prior_time |-> None, round_called |-> FALSE,
     own_queried |-> FALSE, own_response |-> None]

NoStatusResult ==
    [kind |-> "none", raised |-> FALSE, is_active |-> None, message |-> "",
     round_diff |-> None]

InitClient ==
    /\ cache = [k \in CacheKeys |-> None]
    /\ cache_times = [k \in CacheKeys |-> None]
    /\ uptime_ret = NoUptimeResult
    /\ uptime_probe = NoUptimeProbe
    /\ status_ret = NoStatusResult
    /\ cv_ret = None
    /\ client_calls = 0

InitRound ==
    /\ network_rounds = [n \in Networks |-> None]
    /\ network_round_times = [n \in Networks |-> None]
    /\ round_ret = NoRoundResult
    /\ round_probe = NoRoundProbe
    /\ round_populated = [n \in Networks |-> FALSE]

(***************************************************************************)
(* gmonads.py: public keys.  A key string is modelled by its parts: the    *)
(* prefix "0x" or "0X" (or none), the letter case of its hex digits, the   *)
(* format byte "02", "03" or "04" (or none) and the 64-digit coordinates   *)
(* that follow; cut counts the characters sliced off the first coordinate. *)
(* Every coordinate holds a letter, so two strings are equal exactly when  *)
(* all their parts are.  The curve is a set of points (x, y) in which y    *)
(* and its negation have different parity.                                 *)
(***************************************************************************)
Curve ==
    {[x |-> "a1", y |-> 2], [x |-> "a1", y |-> 3], [x |-> "04", y |-> 6], [x |-> "02", y |-> 5]}

\* the first two characters of a coordinate: a coordinate of the curve is
\* named by them
CoordinateHead(c) == c

KeyString(ox, case, head, body) ==
    [ox |-> ox, case |-> case, head |-> head, body |-> body, cut |-> 0]

\* the empty string
EmptyKey == KeyString("", "lower", "", << >>)

\* len(key)
KeyLen(k) ==
    (IF k.ox = "" THEN 0 ELSE 2) + (IF k.head = "" THEN 0 ELSE 2) + 64 * Len(k.body) - k.cut

\* key.lower()
KeyLower(k) == [k EXCEPT !.ox = IF @ = "0X" THEN "0x" ELSE @, !.case = "lower"]

\* key[:2] of a key of at least two characters
KeyFirst2(k) ==
    IF k.ox # "" THEN k.ox
    ELSE IF k.head # "" THEN k.head
    ELSE IF k.cut = 0 /\ Len(k.body) > 0 THEN CoordinateHead(k.body[1])
    ELSE "??"

\* key[2:]
KeyDrop2(k) ==
    IF k.ox # "" THEN [k EXCEPT !.ox = ""]
    ELSE IF k.head # "" THEN [k EXCEPT !.head = ""]
    ELSE [k EXCEPT !.cut = @ + 2]

\* the format byte of the compressed form of a point
ParityHead(p) == IF p.y % 2 = 0 THEN "02" ELSE "03"

\* VerifyingKey.from_string(bytes).to_string("uncompressed").hex() of the
\* ecdsa library on a 33-byte compressed key: "04", x and y of the point
\* with that x and that parity; an exception when x is not on the curve
ecdsa_uncompressed(k) ==
    LET on_curve == {p \in Curve : p.x = k.body[1] /\ ParityHead(p) = k.head}
    IN  IF on_curve = {} THEN None
        ELSE Some(KeyString("", "lower", "04", <<The(on_curve).x, The(on_curve).y>>))

\* decompress_public_key(): the uncompressed key, or None
decompress_public_key(compressed_key) ==
    LET stripped == IF KeyFirst2(compressed_key) = "0x" THEN KeyDrop2(compressed_key)
                    ELSE compressed_key
        k == KeyLower(stripped)
    IN  IF KeyLen(k) # 66 \/ KeyFirst2(k) \notin {"02", "03"} THEN None
        ELSE ecdsa_uncompressed(k)

\* the result of decompress_public_key without its "04", as public_keys_match
\* compares it; None when the decompression failed
DecompressedBody(k) ==
    LET d == decompress_public_key(k)
    IN  IF d = None THEN None
        ELSE IF KeyFirst2(Val(d)) = "04" THEN Some(KeyDrop2(Val(d)))
        ELSE d

\* public_keys_match() that never decompresses
public_keys_match_NoDecompression(key1, key2) ==
    IF \E key \in {key1, key2} : KeyLen(key) < 64 THEN FALSE
    ELSE LET l1 == KeyLower(key1)
             l2 == KeyLower(key2)
             k1 == IF KeyFirst2(l1) = "0x" THEN KeyDrop2(l1) ELSE l1
             k2 == IF KeyFirst2(l2) = "0x" THEN KeyDrop2(l2) ELSE l2
             k1_body == IF KeyFirst2(k1) = "04" /\ KeyLen(k1) = 130 THEN KeyDrop2(k1) ELSE k1
             k2_body == IF KeyFirst2(k2) = "04" /\ KeyLen(k2) = 130 THEN KeyDrop2(k2) ELSE k2
         IN  k1 = k2 \/ k1_body = k2_body

\* public_keys_match()
public_keys_match(key1, key2) ==
    IF \E key \in {key1, key2} : KeyLen(key) < 64 THEN FALSE
    ELSE LET l1 == KeyLower(key1)
             l2 == KeyLower(key2)
             k1 == IF KeyFirst2(l1) = "0x" THEN KeyDrop2(l1) ELSE l1
             k2 == IF KeyFirst2(l2) = "0x" THEN KeyDrop2(l2) ELSE l2
             k1_body == IF KeyFirst2(k1) = "04" /\ KeyLen(k1) = 130 THEN KeyDrop2(k1) ELSE k1
             k2_body == IF KeyFirst2(k2) = "04" /\ KeyLen(k2) = 130 THEN KeyDrop2(k2) ELSE k2
             k1_is_compressed == KeyLen(k1) = 66 /\ KeyFirst2(k1) \in {"02", "03"}
             k2_is_compressed == KeyLen(k2) = 66 /\ KeyFirst2(k2) \in {"02", "03"}
             k1_is_uncompressed ==
                 KeyLen(k1) = 128 \/ (KeyLen(k1) = 130 /\ KeyFirst2(k1) = "04")
             k2_is_uncompressed ==
                 KeyLen(k2) = 128 \/ (KeyLen(k2) = 130 /\ KeyFirst2(k2) = "04")
         IN  IF k1 = k2 THEN TRUE
             ELSE IF k1_body = k2_body THEN TRUE
             ELSE IF k1_is_compressed /\ k2_is_uncompressed
             THEN DecompressedBody(k1) = Some(k2_body)
             ELSE IF k1_is_uncompressed /\ k2_is_compressed
             THEN Some(k1_body) = DecompressedBody(k2)
             ELSE IF k1_is_compressed /\ k2_is_compressed
             THEN k1 = k2
             ELSE IF k1_is_uncompressed /\ k2_is_uncompressed
             THEN k1_body = k2_body
             ELSE FALSE

\* the loop of is_validator_in_active_set from the i-th validator on
RECURSIVE MatchLoop(_, _, _)
MatchLoop(secp_address, validators, i) ==
    IF i > Len(validators) THEN None
    ELSE IF public_keys_match(secp_address, validators[i].node_id)
    THEN Some(validators[i].validator_set_type = "active")
    ELSE MatchLoop(secp_address, validators, i + 1)

\* is_validator_in_active_set(); validators is what get_epoch_validators
\* returned: None or a list
is_validator_in_active_set(secp_address, validators) ==
    IF validators = None THEN None
    ELSE MatchLoop(secp_address, Val(validators), 1)

\* the strings that encode a point: compressed, uncompressed and
\* uncompressed behind "04", each with or without "0x"/"0X", in lower case or
\* with capitals
Encodings(p) ==
    {KeyString(ox, case, f[1], f[2]) :
        ox \in {"", "0x", "0X"}, case \in {"lower", "upper"},
        f \in {<<ParityHead(p), <<p.x>>>>, <<"", <<p.x, p.y>>>>, <<"04", <<p.x, p.y>>>>}}

\* the keys the matching is tried on
Keys == {EmptyKey} \cup UNION {Encodings(p) : p \in Curve}

EpochValidator(node_id, validator_set_type) ==
    [node_id |-> node_id, validator_set_type |-> validator_set_type]

\* what get_epoch_validators returns around a validator whose node_id is k:
\* None, lists without it, lists with it behind other entries
EpochLists(k) ==
    {None, Some(<< >>), Some(<<EpochValidator(EmptyKey, "active")>>)}
    \cup {Some(<<EpochValidator(k, t)>>) : t \in {"active", "registered"}}
    \cup {Some(<<EpochValidator(EmptyKey, "active"), EpochValidator(k, t)>>) :
             t \in {"active", "registered"}}

(***************************************************************************)
(* main(): the process with two validators configured.  Each validator     *)
(* has its state machine and its state file state_<safe_name>.json.        *)
(***************************************************************************)
\* v.name.replace(" ", "_").replace("/", "_").replace("\\", "_") on the names
\* of the model
SafeName(name) == IF name \in {"val 1", "val/1"} THEN "val_1" ELSE name

\* the validators of config: two names with different state files, or two
\* names whose state files coincide
DefaultValidators == <<ConfiguredName, "val-2">>

Configurations == {DefaultValidators, <<"val 1", "val_1">>}

Validators == 1..2

\* the state files the configurations use
StateFiles == {SafeName(names[k]) : names \in Configurations, k \in Validators}

\* main(), "Load persisted state for each validator", for validator k
LoadedMachine(names, files, k, t) ==
    LET loaded_machine == load_state(files[SafeName(names[k])], t)
    IN  IF loaded_machine.validator_name = names[k]
        THEN loaded_machine
        ELSE NewMachine(names[k], None, t)

\* the process after main() reached the monitoring loop: prev_states and
\* prev_saved tell the lifecycle states at the last shutdown and the
\* validators whose save_state returned True then
ProcessStart(names, files, restarts, prev_states, prev_saved, t) ==
    [names |-> names,
     running |-> TRUE,
     pc |-> "while",
     i |-> 1,
     passes |-> 0,
     state_machines |-> [k \in Validators |-> LoadedMachine(names, files, k, t)],
     loaded_names |-> [k \in Validators |-> load_state(files[SafeName(names[k])], t).validator_name],
     files |-> files,
     save_called |-> {},
     save_ok |-> {},
     servers_stopped |-> FALSE,
     restarts |-> restarts,
     prev_states |-> prev_states,
     prev_saved |-> prev_saved]

\* the state directory at the first start: empty
EmptyDirectory == [f \in StateFiles |-> MissingFile]

\* or holding the file an earlier run saved for the first validator, ACTIVE
OlderDirectory(names) ==
    [EmptyDirectory EXCEPT ![SafeName(names[1])] =
        JsonFile(to_dict(NewMachine(names[1], Some(S_ACTIVE), 0)))]

\* the first start on a state directory
FirstStartOn(names, files) ==
    ProcessStart(names, files, 0, [k \in Validators |-> S_NEW], {}, 1)

\* the process is not followed statement by statement
NoProcess == [pc |-> "none", running |-> TRUE]

NoKeyProbe ==
    [op |-> "none", key1 |-> EmptyKey, key2 |-> EmptyKey, validators |-> None,
     ret |-> None, ret_swapped |-> None]

InitKeys ==
    /\ now = 1
    /\ ticks = 0
    /\ op = "init"
    /\ InitSM
    /\ InitCB
    /\ InitRace
    /\ InitRound
    /\ InitClient
    /\ InitLoop
    /\ proc = NoProcess
    /\ key_probe \in {[NoKeyProbe EXCEPT !.op = "input", !.key1 = k1, !.key2 = k2] :
                        k1 \in Keys, k2 \in Keys}

Init ==
    /\ now = 1
    /\ ticks = 0
    /\ op = "init"
    /\ InitSM
    /\ InitCB
    /\ InitRace
    /\ InitRound
    /\ InitClient
    /\ InitLoop
    /\ proc = NoProcess
    /\ key_probe = NoKeyProbe

\* the state after main() has loaded the validators of one of the configurations
InitShutdown ==
    /\ now = 1
    /\ ticks = 0
    /\ op = "init"
    /\ InitSM
    /\ InitCB
    /\ InitRace
    /\ InitRound
    /\ InitClient
    /\ InitLoop
    /\ proc \in UNION {{FirstStartOn(names, EmptyDirectory),
                          FirstStartOn(names, OlderDirectory(names))} : names \in Configurations}
    /\ key_probe = NoKeyProbe

\* a direct call machine.update(is_active, is_ever_active)
Update(is_active, is_ever_active) ==
    \E r \in {update(machine, is_active, is_ever_active, None, now)} :
        /\ Len(r[1].transition_history) <= MaxHistory
        /\ machine' = r[1]
        /\ sm_ret' = r[2]
        /\ update_args' = Some(<<is_active, is_ever_active>>)
        /\ transitions_returned' = transitions_returned + (IF IsSome(r[2]) THEN 1 ELSE 0)
        /\ op' = "update"
        /\ UNCHANGED <<raceVars, loopVars, load_ret, alert_ret, fetch_probe, key_probe, now, ticks, obs, alert_sent,
                       state_file, cbVars, roundVars, clientVars>>

\* one pass of the monitoring loop over the validator
MonitorStep(o) ==
    /\ obs' = o
    /\ op' = "monitor"
    /\ IF o.metrics
       THEN \E r \in {MonitorUpdate(machine, o, now)} :
                /\ Len(r.machine.transition_history) <= MaxHistory
                /\ machine' = r.machine
                /\ sm_ret' = r.transition
                /\ update_args' = r.update_args
                /\ transitions_returned' =
                       transitions_returned + (IF IsSome(r.transition) THEN 1 ELSE 0)
                /\ alert_sent' = TransitionAlert(r.transition)
       ELSE /\ sm_ret' = None
            /\ update_args' = None
            /\ alert_sent' = None
            /\ UNCHANGED <<machine, transitions_returned>>
    /\ UNCHANGED <<raceVars, loopVars, load_ret, alert_ret, fetch_probe, key_probe, now, ticks, state_file, cbVars,
                   roundVars, clientVars>>

\* save_state(): the file is written, or the write fails and False is returned
SaveState(ok) ==
    /\ state_file' = IF ok THEN JsonFile(to_dict(machine)) ELSE state_file
    /\ op' = "save"
    /\ UNCHANGED <<raceVars, loopVars, load_ret, alert_ret, fetch_probe, key_probe, now, ticks, machine, sm_ret,
                   update_args, transitions_returned, obs, alert_sent, cbVars, roundVars,
                   clientVars>>

\* what a damaged state file can hold
CorruptFiles ==
    {MissingFile,
     [kind |-> "empty", data |-> NotADict],
     [kind |-> "invalid_json", data |-> NotADict],
     [kind |-> "unreadable", data |-> NotADict],
     JsonFile(NotADict),
     JsonFile([is_dict |-> TRUE, validator_name |-> None, current_state |-> None,
               state_entered_at |-> None, transition_count |-> None]),
     JsonFile([is_dict |-> TRUE, validator_name |-> Some(JStr(ConfiguredName)),
               current_state |-> Some(JStr("bogus")),
               state_entered_at |-> None, transition_count |-> None]),
     JsonFile([is_dict |-> TRUE, validator_name |-> Some(JOther),
               current_state |-> Some(JStr(S_ACTIVE)),
               state_entered_at |-> None, transition_count |-> None]),
     JsonFile([is_dict |-> TRUE, validator_name |-> Some(JStr("")),
               current_state |-> Some(JStr(S_INACTIVE)),
               state_entered_at |-> None, transition_count |-> None]),
     JsonFile([is_dict |-> TRUE, validator_name |-> Some(JStr(ConfiguredName)),
               current_state |-> Some(JOther),
               state_entered_at |-> None, transition_count |-> None]),
     JsonFile([is_dict |-> TRUE, validator_name |-> Some(JStr(ConfiguredName)),
               current_state |-> None,
               state_entered_at |-> None, transition_count |-> None])}

\* the state file is damaged or removed while the monitor is down
CorruptFile(f) ==
    /\ state_file' = f
    /\ op' = "corrupt"
    /\ UNCHANGED <<raceVars, loopVars, load_ret, alert_ret, fetch_probe, key_probe, now, ticks, machine, sm_ret,
                   update_args, transitions_returned, obs, alert_sent, cbVars, roundVars,
                   clientVars>>

\* main(), "Load persisted state for each validator", after a process start
Restart ==
    LET loaded_machine == load_state(state_file, now)
    IN  /\ machine' = IF loaded_machine.validator_name = ConfiguredName
                      THEN loaded_machine
                      ELSE NewMachine(ConfiguredName, None, now)
        /\ sm_ret' = None
        /\ update_args' = None
        /\ transitions_returned' = 0
        /\ obs' = NoObservation
        /\ alert_sent' = None
        /\ load_ret' = Some(loaded_machine)
        /\ op' = "restart"
        /\ UNCHANGED <<raceVars, loopVars, alert_ret, fetch_probe, key_probe, now, ticks, state_file, cbVars,
                       roundVars, clientVars>>

\* time passes; the outputs of the last operation are forgotten
TickSM ==
    /\ now < MaxSMTime
    /\ now' = now + 1
    /\ op' = "tick"
    /\ sm_ret' = None
    /\ update_args' = None
    /\ obs' = NoObservation
    /\ alert_sent' = None
    /\ UNCHANGED <<raceVars, loopVars, load_ret, alert_ret, fetch_probe, key_probe, ticks, machine,
                   transitions_returned, state_file, cbVars, roundVars, clientVars>>

NextSM ==
    \/ \E a \in BOOLEAN, e \in BOOLEAN : Update(a, e)
    \/ \E o \in Observations : MonitorStep(o)
    \/ TickSM

SpecSM == Init /\ [][NextSM]_vars

\* ValidatorStateMachine.ALWAYS_ALERT_TYPES
ALWAYS_ALERT_TYPES == {"node_down", "connection_failed", "rpc_error"}

\* ValidatorStateMachine.ACTIVE_ONLY_ALERT_TYPES
ACTIVE_ONLY_ALERT_TYPES == {"local_timeout", "ts_validation_fail", "execution_lagging"}

\* get_alert_threshold
get_alert_threshold(m) ==
    IF m.current_state = S_NEW THEN "minimal"
    ELSE IF m.current_state = S_ACTIVE THEN "full"
    ELSE "recovery"

\* should_alert_on with the recovery threshold letting default types through
should_alert_on_RecoveryAlerts(m, alert_type) ==
    IF alert_type \in ALWAYS_ALERT_TYPES THEN TRUE
    ELSE IF alert_type \in ACTIVE_ONLY_ALERT_TYPES THEN m.current_state = S_ACTIVE
    ELSE IF get_alert_threshold(m) = "minimal" THEN FALSE
    ELSE IF get_alert_threshold(m) = "recovery" THEN TRUE
    ELSE TRUE

\* should_alert_on
should_alert_on(m, alert_type) ==
    IF alert_type \in ALWAYS_ALERT_TYPES THEN TRUE
    ELSE IF alert_type \in ACTIVE_ONLY_ALERT_TYPES THEN m.current_state = S_ACTIVE
    ELSE IF get_alert_threshold(m) = "minimal" THEN FALSE
    ELSE IF get_alert_threshold(m) = "recovery" THEN FALSE
    ELSE TRUE

\* alert types a caller can ask about: the listed ones, one that is in
\* neither list, and the empty string
AlertTypes == ALWAYS_ALERT_TYPES \cup ACTIVE_ONLY_ALERT_TYPES \cup {"block_production", ""}

\* a call of should_alert_on
ShouldAlertOn(alert_type) ==
    /\ alert_ret' = Some([alert_type |-> alert_type, state |-> machine.current_state,
                          answer |-> should_alert_on(machine, alert_type)])
    /\ op' = "should_alert_on"
    /\ sm_ret' = None
    /\ update_args' = None
    /\ obs' = NoObservation
    /\ alert_sent' = None
    /\ UNCHANGED <<now, ticks, machine, transitions_returned, state_file, load_ret, fetch_probe, key_probe,
                   cbVars,
                   raceVars, roundVars, clientVars, loopVars>>

\* the machine driven by update() and asked whether to alert
NextAlert ==
    \/ \E a \in BOOLEAN, e \in BOOLEAN : Update(a, e)
    \/ \E alert_type \in AlertTypes : ShouldAlertOn(alert_type)
    \/ TickSM

SpecAlert == Init /\ [][NextAlert]_vars

\* C20: in every lifecycle state should_alert_on answers true for the
\* always-alert types (node_down, connection_failed, rpc_error), and for the
\* active-only types and every other type answers true exactly when the
\* state is ACTIVE.
C20_AlertPolicy ==
    IsSome(alert_ret) =>
        IF Val(alert_ret).alert_type \in {"node_down", "connection_failed", "rpc_error"}
        THEN Val(alert_ret).answer
        ELSE Val(alert_ret).answer <=> Val(alert_ret).state = S_ACTIVE

\* an INACTIVE machine was asked about a type in neither list and
\* answered no
C20_Witness ==
    /\ op = "should_alert_on"
    /\ machine.current_state = S_INACTIVE
    /\ Val(alert_ret).state = S_INACTIVE
    /\ Val(alert_ret).alert_type = "block_production"
    /\ ~Val(alert_ret).answer

\* the machine across shutdowns and restarts of the monitor
NextPersist ==
    \/ \E a \in BOOLEAN, e \in BOOLEAN : Update(a, e)
    \/ \E ok \in BOOLEAN : SaveState(ok)
    \/ \E f \in CorruptFiles : CorruptFile(f)
    \/ Restart
    \/ TickSM

SpecPersist == Init /\ [][NextPersist]_vars

\* the last operation called update(), directly or from the monitoring loop
UpdateCalled == op \in {"update", "monitor"} /\ IsSome(update_args)

(***************************************************************************)
(* Properties of the lifecycle state machine                               *)
(***************************************************************************)
\* C1: over update() calls with arbitrary arguments, a machine that has been
\* ACTIVE or INACTIVE is never NEW again (stated as claimed; update(False,
\* False) on an ACTIVE or INACTIVE machine violates it)
C1_UpdateNeverBackToNew ==
    [][(UpdateCalled' /\ machine.current_state # S_NEW)
          => machine'.current_state # S_NEW]_vars

\* the target state as the claim words it
C8_Target(args) ==
    IF args[1] THEN S_ACTIVE ELSE IF args[2] THEN S_INACTIVE ELSE S_NEW

\* C8: update() moves to the target state, returns Transition(previous,
\* target) and appends it to the history exactly when the target differs from
\* the current state, and otherwise returns None and changes nothing; the
\* history length equals the number of calls that returned a transition and
\* every returned transition has from # to
C8_UpdateContract ==
    /\ [][UpdateCalled' =>
            LET target == C8_Target(Val(update_args'))
            IN  IF target # machine.current_state
                THEN /\ IsSome(sm_ret')
                     /\ Val(sm_ret').from_state = machine.current_state
                     /\ Val(sm_ret').to_state = target
                     /\ machine'.current_state = target
                     /\ machine'.state_entered_at = now
                     /\ machine'.transition_history =
                            Append(machine.transition_history, Val(sm_ret'))
                ELSE /\ sm_ret' = None
                     /\ machine' = machine]_vars
    /\ [](/\ Len(machine.transition_history) = transitions_returned
          /\ to_dict(machine).transition_count = Some(JNum(transitions_returned))
          /\ (IsSome(sm_ret) => Val(sm_ret).from_state # Val(sm_ret).to_state))

\* update() calls have produced NEW -> ACTIVE and then, at a later time,
\* ACTIVE -> INACTIVE: two transitions returned, two entries in the history
C8_Witness ==
    /\ UpdateCalled
    /\ transitions_returned = 2
    /\ Len(machine.transition_history) = 2
    /\ machine.transition_history[1].from_state = S_NEW
    /\ machine.transition_history[1].to_state = S_ACTIVE
    /\ IsSome(sm_ret) /\ Val(sm_ret).from_state = S_ACTIVE /\ Val(sm_ret).to_state = S_INACTIVE
    /\ machine.state_entered_at > machine.transition_history[1].timestamp

\* is_ever_active as the loop reads it from an observation
ObsEverActive(o) == IsSome(o.huginn_data) /\ Val(o.huginn_data).is_ever_active

\* C9: a loop step that finds the machine NEW and observes is_ever_active
\* assigns ACTIVE or INACTIVE directly: update() is not called, no transition
\* is produced, the history is unchanged and no alert is dispatched
C9_RestartAssignsDirectly ==
    [][(op' = "monitor" /\ machine.current_state = S_NEW /\ ObsEverActive(obs'))
          => /\ machine'.current_state =
                    (IF obs'.is_active_validator = Some(TRUE) THEN S_ACTIVE ELSE S_INACTIVE)
             /\ update_args' = None
             /\ sm_ret' = None
             /\ machine'.transition_history = machine.transition_history
             /\ transitions_returned' = transitions_returned
             /\ alert_sent' = None]_vars

\* a first observation (active, ever active) has put a NEW machine into ACTIVE
\* with an empty history
C9_Witness ==
    /\ op = "monitor"
    /\ ObsEverActive(obs)
    /\ obs.is_active_validator = Some(TRUE)
    /\ machine.current_state = S_ACTIVE
    /\ machine.transition_history = << >>
    /\ update_args = None
    /\ alert_sent = None

\* C32: the direct assignment is applied to the first observation only: a
\* machine that a loop step has observed and left NEW, and that the next loop
\* step observes as (is_active = true, is_ever_active = true), goes through
\* update(), which returns NEW -> ACTIVE, and ENTERED ACTIVE SET is dispatched
C32_LaterObservationUsesUpdate ==
    [][(/\ op = "monitor" /\ obs.metrics
        /\ machine.current_state = S_NEW
        /\ op' = "monitor"
        /\ obs'.is_active_validator = Some(TRUE)
        /\ ObsEverActive(obs'))
          => /\ update_args' = Some(<<TRUE, TRUE>>)
             /\ IsSome(sm_ret')
             /\ Val(sm_ret').from_state = S_NEW
             /\ Val(sm_ret').to_state = S_ACTIVE
             /\ alert_sent' = Some("ENTERED ACTIVE SET")]_vars

\* C33: no step of the monitoring loop takes a machine that has left NEW
\* back to NEW, whatever it observes (is_active true, false or unknown,
\* Huginn data present or absent): where the observation does not show
\* is_ever_active, update() is called with is_ever_active = true
C33_LoopNeverBackToNew ==
    [][(op' \in {"monitor", "loop"} /\ machine.current_state # S_NEW)
          => /\ machine'.current_state # S_NEW
             /\ IsSome(update_args') => Val(update_args')[2]]_vars

\* an ACTIVE machine observed with no Huginn data and an unknown is_active
\* went through update(False, True) to INACTIVE
C33_Witness ==
    /\ op = "monitor"
    /\ obs.metrics
    /\ obs.huginn_data = None
    /\ obs.is_active_validator = None
    /\ update_args = Some(<<FALSE, TRUE>>)
    /\ IsSome(sm_ret)
    /\ Val(sm_ret).from_state = S_ACTIVE
    /\ machine.current_state = S_INACTIVE

C18_RoundTrip ==
    /\ from_dict(to_dict(machine), now).current_state = machine.current_state
    /\ from_dict(to_dict(machine), now).validator_name = machine.validator_name

\* a machine that went NEW -> ACTIVE -> INACTIVE comes back INACTIVE, with
\* its name, from its own dictionary
C18_Witness ==
    /\ op \in {"update", "monitor"}
    /\ machine.current_state = S_INACTIVE
    /\ Len(machine.transition_history) = 2
    /\ from_dict(to_dict(machine), now).current_state = S_INACTIVE
    /\ from_dict(to_dict(machine), now).validator_name = ConfiguredName

\* C36: to_dict(from_dict(d)) equals d for every d that to_dict produces from
\* a reachable machine: validator_name, current_state, state_entered_at and
\* transition_count all survive a persist/restore cycle
C36_DictRoundTrip ==
    to_dict(from_dict(to_dict(machine), now)) = to_dict(machine)

\* the name and the state from_dict is to give for a dictionary
C19_ExpectedName(d) ==
    IF IsSome(d.validator_name) /\ Val(d.validator_name).t = "str" /\ Val(d.validator_name).s # ""
    THEN Val(d.validator_name).s ELSE DEFAULT_VALIDATOR_NAME

C19_ExpectedState(d) ==
    IF IsSome(d.current_state) /\ Val(d.current_state) \in {JStr(st) : st \in ValidatorState}
    THEN Val(d.current_state).s ELSE S_NEW

NewCircuitBreaker(failure_threshold, recovery_time) ==
    [failure_threshold |-> failure_threshold,
     recovery_time |-> recovery_time,
     failure_count |-> 0,
     state |-> CLOSED,
     last_failure_time |-> None]

\* _get_circuit_breaker: the dict after the lookup
get_circuit_breaker(cbs, network) ==
    IF IsSome(cbs[network])
    THEN cbs
    ELSE [cbs EXCEPT ![network] = Some(NewCircuitBreaker(CIRCUIT_BREAKER_FAILURE_THRESHOLD,
                                                         CIRCUIT_BREAKER_RECOVERY_TIME))]

\* the breaker _get_circuit_breaker hands out
Breaker(cbs, network) == Val(get_circuit_breaker(cbs, network)[network])

\* can_execute() that admits only after more than recovery_time
can_execute_StrictlyAfter(b, t) ==
    IF b.state = CLOSED THEN <<b, TRUE>>
    ELSE IF b.state = OPEN
    THEN IF /\ IsSome(b.last_failure_time) /\ Val(b.last_failure_time) # 0
            /\ t - Val(b.last_failure_time) > b.recovery_time
         THEN <<[b EXCEPT !.state = HALF_OPEN], TRUE>>
         ELSE <<b, FALSE>>
    ELSE <<b, TRUE>>

\* can_execute() that clears failure_count when it moves to HALF_OPEN
can_execute_ResetsCount(b, t) ==
    IF b.state = CLOSED THEN <<b, TRUE>>
    ELSE IF b.state = OPEN
    THEN IF /\ IsSome(b.last_failure_time) /\ Val(b.last_failure_time) # 0
            /\ t - Val(b.last_failure_time) >= b.recovery_time
         THEN <<[b EXCEPT !.state = HALF_OPEN, !.failure_count = 0], TRUE>>
         ELSE <<b, FALSE>>
    ELSE <<b, TRUE>>

\* can_execute(): <<breaker after the call, returned value>>; t is time.time()
can_execute(b, t) ==
    IF b.state = CLOSED THEN <<b, TRUE>>
    ELSE IF b.state = OPEN
    THEN IF /\ IsSome(b.last_failure_time) /\ Val(b.last_failure_time) # 0
            /\ t - Val(b.last_failure_time) >= b.recovery_time
         THEN <<[b EXCEPT !.state = HALF_OPEN], TRUE>>
         ELSE <<b, FALSE>>
    ELSE <<b, TRUE>>

\* record_success() that clears failure_count and leaves the state
record_success_KeepsState(b) == [b EXCEPT !.failure_count = 0]

\* record_success()
record_success(b) == [b EXCEPT !.failure_count = 0, !.state = CLOSED]

\* record_failure() that opens one failure late
record_failure_OpensLate(b, t) ==
    LET c == b.failure_count + 1
    IN  [b EXCEPT !.failure_count = c,
                  !.last_failure_time = Some(t),
                  !.state = IF c > b.failure_threshold THEN OPEN ELSE @]

\* record_failure(); t is time.time()
record_failure(b, t) ==
    LET c == b.failure_count + 1
    IN  [b EXCEPT !.failure_count = c,
                  !.last_failure_time = Some(t),
                  !.state = IF c >= b.failure_threshold THEN OPEN ELSE @]

\* is_open()
is_open(b) == b.state = OPEN

(***************************************************************************)
(* huginn.py: _fetch_with_retry.  One HTTP attempt either raises a         *)
(* RequestException (None) or yields a response (status_code, body).       *)
(***************************************************************************)
\* the attempt loop from attempt number i (0-based) on: the breaker after the
\* call, the returned response, the number of requests.get calls made and the
\* outcomes recorded on the breaker
\* a retry loop that retries 4xx responses as it retries 5xx responses
RECURSIVE RetryLoop_RetriesClientErrors(_, _, _, _)
RetryLoop_RetriesClientErrors(b, t, attempts, i) ==
    LET a == attempts[i + 1]
    IN  IF IsSome(a) /\ Val(a).status_code < 400
        THEN [cb |-> record_success(b), response |-> a, http_attempts |-> i + 1,
              records |-> <<"record_success">>]
        ELSE IF i < MAX_RETRIES - 1
        THEN RetryLoop_RetriesClientErrors(b, t, attempts, i + 1)
        ELSE [cb |-> record_failure(b, t), response |-> a, http_attempts |-> i + 1,
              records |-> <<"record_failure">>]

\* a retry loop that records a failure on the breaker after every failed attempt
RECURSIVE RetryLoop_RecordsEveryFailure(_, _, _, _)
RetryLoop_RecordsEveryFailure(b, t, attempts, i) ==
    LET a == attempts[i + 1]
    IN  IF IsSome(a) /\ Val(a).status_code < 500
        THEN [cb |-> record_success(b), response |-> a, http_attempts |-> i + 1,
              records |-> <<"record_success">>]
        ELSE IF i < MAX_RETRIES - 1
        THEN The({[r EXCEPT !.records = <<"record_failure">> \o @]
                  : r \in {RetryLoop_RecordsEveryFailure(record_failure(b, t), t, attempts,
                                                         i + 1)}})
        ELSE [cb |-> record_failure(b, t), response |-> a, http_attempts |-> i + 1,
              records |-> <<"record_failure">>]

RECURSIVE RetryLoop(_, _, _, _)
RetryLoop(b, t, attempts, i) ==
    LET a == attempts[i + 1]
    IN  IF IsSome(a) /\ Val(a).status_code < 500
        THEN [cb |-> record_success(b), response |-> a, http_attempts |-> i + 1,
              records |-> <<"record_success">>]
        ELSE IF i < MAX_RETRIES - 1
        THEN RetryLoop(b, t, attempts, i + 1)
        ELSE [cb |-> record_failure(b, t), response |-> a, http_attempts |-> i + 1,
              records |-> <<"record_failure">>]

\* _fetch_with_retry on the breaker b
fetch_with_retry(b, t, attempts) ==
    The({IF ~c[2]
         THEN [cb |-> c[1], response |-> None, http_attempts |-> 0, admitted |-> FALSE,
               records |-> << >>]
         ELSE The({[cb |-> r.cb, response |-> r.response, http_attempts |-> r.http_attempts,
                    admitted |-> TRUE, records |-> r.records]
                   : r \in {RetryLoop(c[1], t, attempts, 0)}})
         : c \in {can_execute(b, t)}})

\* a response body: text that is not JSON ("invalid"), a JSON list ("list",
\* "empty_list"), the object {} ("empty_object") or an object with the keys
\* success and, unless uptime_kind is "missing", uptime; uptime is null, a
\* string, {} ("empty") or an object with last_round and total_events
EmptyBody ==
    [kind |-> "invalid", success |-> FALSE, uptime_kind |-> "missing",
     last_round |-> None, total_events |-> 0]

\* the body {"success": success, "uptime": {"last_round": .., "total_events": ..}}
UptimeBody(success, last_round, total_events) ==
    [kind |-> "object", success |-> success, uptime_kind |-> "object",
     last_round |-> last_round, total_events |-> total_events]

\* a response whose body is not JSON
StatusOnly(code) == [status_code |-> code, body |-> EmptyBody]

\* what one attempt can yield in the breaker specification
CBAttemptOutcomes == {None} \cup {Some(StatusOnly(c)) : c \in {200, 404, 429, 500, 503}}

CBAttempts == [1..MAX_RETRIES -> CBAttemptOutcomes]

\* a call of can_execute() on the breaker of a network
CanExecute(network) ==
    LET cbs == get_circuit_breaker(circuit_breakers, network)
    IN  \E c \in {can_execute(Val(cbs[network]), now)} :
        /\ circuit_breakers' = [cbs EXCEPT ![network] = Some(c[1])]
        /\ cb_ret' = Some(c[2])
        /\ fetch_ret' = None
        /\ fetch_probe' = NoFetchProbe
        /\ http_attempts' = 0
        /\ op' = "can_execute"
        /\ UNCHANGED <<raceVars, loopVars, load_ret, alert_ret, key_probe, now, ticks,
                       consecutive_failures, smVars, roundVars, clientVars>>

\* a call of record_success()
RecordSuccess(network) ==
    LET cbs == get_circuit_breaker(circuit_breakers, network)
    IN  /\ circuit_breakers' = [cbs EXCEPT ![network] = Some(record_success(Val(cbs[network])))]
        /\ consecutive_failures' = [consecutive_failures EXCEPT ![network] = 0]
        /\ cb_ret' = None
        /\ fetch_ret' = None
        /\ fetch_probe' = NoFetchProbe
        /\ http_attempts' = 0
        /\ op' = "record_success"
        /\ UNCHANGED <<raceVars, loopVars, load_ret, alert_ret, key_probe, now, ticks, smVars,
                       roundVars, clientVars>>

\* a call of record_failure()
RecordFailure(network) ==
    LET cbs == get_circuit_breaker(circuit_breakers, network)
    IN  /\ Val(cbs[network]).failure_count < MaxFailures
        /\ circuit_breakers' = [cbs EXCEPT ![network] = Some(record_failure(Val(cbs[network]), now))]
        /\ consecutive_failures' = [consecutive_failures EXCEPT ![network] = @ + 1]
        /\ cb_ret' = None
        /\ fetch_ret' = None
        /\ fetch_probe' = NoFetchProbe
        /\ http_attempts' = 0
        /\ op' = "record_failure"
        /\ UNCHANGED <<raceVars, loopVars, load_ret, alert_ret, key_probe, now, ticks, smVars,
                       roundVars, clientVars>>

\* no attempt of the call yields a response below 500
Exhausted(attempts) ==
    \A i \in 1..MAX_RETRIES : attempts[i] = None \/ Val(attempts[i]).status_code >= 500

\* what one attempt yielded: a response below 500, a 5xx response or a
\* RequestException
AttemptKind(a) ==
    IF a = None THEN "transport" ELSE IF Val(a).status_code < 500 THEN "below_500" ELSE "5xx"

\* the attempts of the call that yield a response below 500
Below500(attempts) ==
    {i \in 1..MAX_RETRIES : AttemptKind(attempts[i]) = "below_500"}

\* the least element of a non-empty set of numbers
MinOf(S) == CHOOSE i \in S : \A j \in S : i <= j

\* the state of the breaker a _fetch_with_retry call met, the first of its
\* attempts that would yield a response below 500 (0: none) with that
\* response, whether its attempts up to that one would yield both 5xx
\* responses and RequestExceptions, and what it recorded on the breaker
FetchProbe(b, attempts, r) ==
    \E first \in {IF Below500(attempts) = {} THEN 0 ELSE MinOf(Below500(attempts))} :
        fetch_probe' =
            [called |-> TRUE, prior_state |-> b.state, first |-> first,
             terminal |-> IF first = 0 THEN None ELSE attempts[first],
             mixed |-> {"5xx", "transport"} \subseteq
                           {AttemptKind(attempts[i])
                            : i \in 1..(IF first = 0 THEN MAX_RETRIES ELSE first)},
             records |-> r.records]

\* a call of _fetch_with_retry
FetchWithRetry(network, attempts) ==
    LET cbs == get_circuit_breaker(circuit_breakers, network)
        b == Val(cbs[network])
    IN  \E r \in {fetch_with_retry(b, now, attempts)} :
        /\ r.cb.failure_count <= MaxFailures
        /\ circuit_breakers' = [cbs EXCEPT ![network] = Some(r.cb)]
        /\ consecutive_failures' =
               [consecutive_failures EXCEPT ![network] =
                    IF ~r.admitted THEN @
                    ELSE IF Exhausted(attempts) THEN @ + 1
                    ELSE 0]
        /\ cb_ret' = Some(r.admitted)
        /\ fetch_ret' = r.response
        /\ FetchProbe(b, attempts, r)
        /\ http_attempts' = r.http_attempts
        /\ op' = "fetch"
        /\ UNCHANGED <<raceVars, loopVars, load_ret, alert_ret, key_probe, now, ticks, smVars,
                       roundVars, clientVars>>

\* clock steps around the recovery time
CBClockSteps == {CIRCUIT_BREAKER_RECOVERY_TIME - 1, CIRCUIT_BREAKER_RECOVERY_TIME}

\* time passes
AdvanceClockCB(d) ==
    /\ ticks < MaxCBTicks
    /\ ticks' = ticks + 1
    /\ now' = now + d
    /\ op' = "tick"
    /\ cb_ret' = None
    /\ fetch_ret' = None
    /\ fetch_probe' = NoFetchProbe
    /\ http_attempts' = 0
    /\ UNCHANGED <<raceVars, loopVars, load_ret, alert_ret, key_probe, circuit_breakers,
                   consecutive_failures, smVars, roundVars, clientVars>>

NextCB ==
    \/ CanExecute("testnet")
    \/ RecordSuccess("testnet")
    \/ RecordFailure("testnet")
    \/ \E attempts \in CBAttempts : FetchWithRetry("testnet", attempts)
    \/ \E d \in CBClockSteps : AdvanceClockCB(d)

SpecCB == Init /\ [][NextCB]_vars

(***************************************************************************)
(* Properties of the circuit breaker                                       *)
(***************************************************************************)
\* the breaker of testnet exists, is OPEN, and d seconds have passed since
\* its last failure
OpenSince(d) ==
    /\ IsSome(circuit_breakers["testnet"])
    /\ Val(circuit_breakers["testnet"]).state = OPEN
    /\ IsSome(Val(circuit_breakers["testnet"]).last_failure_time)
    /\ now - Val(Val(circuit_breakers["testnet"]).last_failure_time) = d

\* C2: after failure_threshold consecutive recorded failures the breaker is
\* OPEN; while less than recovery_time has passed since the last failure
\* every can_execute() returns False and every _fetch_with_retry returns None
\* with no HTTP attempt, and the breaker is left as it was
C2_OpenRejects ==
    /\ []((/\ op \in {"record_failure", "fetch"}
           /\ consecutive_failures["testnet"] >= CIRCUIT_BREAKER_FAILURE_THRESHOLD)
          => Val(circuit_breakers["testnet"]).state = OPEN)
    /\ [][(/\ \E d \in 0..(CIRCUIT_BREAKER_RECOVERY_TIME - 1) : OpenSince(d)
           /\ op' \in {"can_execute", "fetch"})
          => /\ cb_ret' = Some(FALSE)
             /\ fetch_ret' = None
             /\ http_attempts' = 0
             /\ circuit_breakers' = circuit_breakers]_vars

\* exactly failure_threshold failures opened the breaker at time 1, and a
\* fetch one second before the recovery time was rejected
C2_Witness ==
    /\ op = "fetch"
    /\ cb_ret = Some(FALSE)
    /\ fetch_ret = None
    /\ OpenSince(CIRCUIT_BREAKER_RECOVERY_TIME - 1)
    /\ consecutive_failures["testnet"] = CIRCUIT_BREAKER_FAILURE_THRESHOLD
    /\ Val(circuit_breakers["testnet"]).failure_count = CIRCUIT_BREAKER_FAILURE_THRESHOLD

\* C3: on an OPEN breaker a can_execute() made recovery_time or more after
\* the last failure returns True and moves to HALF_OPEN, a fetch made then
\* is admitted, and record_success() leaves CLOSED with failure_count 0
C3_OpenRecovers ==
    /\ [][(/\ \E d \in CIRCUIT_BREAKER_RECOVERY_TIME..(CIRCUIT_BREAKER_RECOVERY_TIME * (MaxCBTicks + 1)) :
                 OpenSince(d)
           /\ op' = "can_execute")
          => /\ cb_ret' = Some(TRUE)
             /\ Val(circuit_breakers'["testnet"]).state = HALF_OPEN]_vars
    /\ [][(/\ \E d \in CIRCUIT_BREAKER_RECOVERY_TIME..(CIRCUIT_BREAKER_RECOVERY_TIME * (MaxCBTicks + 1)) :
                 OpenSince(d)
           /\ op' = "fetch")
          => /\ cb_ret' = Some(TRUE)
             /\ http_attempts' >= 1]_vars
    /\ [][op' = "record_success"
          => /\ Val(circuit_breakers'["testnet"]).state = CLOSED
             /\ Val(circuit_breakers'["testnet"]).failure_count = 0]_vars

\* can_execute() has moved the breaker to HALF_OPEN exactly recovery_time
\* after the last failure
C3_Witness ==
    /\ op = "can_execute"
    /\ cb_ret = Some(TRUE)
    /\ IsSome(circuit_breakers["testnet"])
    /\ Val(circuit_breakers["testnet"]).state = HALF_OPEN
    /\ now - Val(Val(circuit_breakers["testnet"]).last_failure_time) = CIRCUIT_BREAKER_RECOVERY_TIME

\* the last operation was a _fetch_with_retry call the breaker admitted
FetchAdmitted ==
    /\ op = "fetch"
    /\ fetch_probe.called
    /\ cb_ret = Some(TRUE)

\* C21: within one admitted _fetch_with_retry call, the first attempt whose
\* response has a status below 500 ends the call: that response is returned
\* and the number of HTTP attempts made is the number of that attempt
C21_Below500EndsCall ==
    (FetchAdmitted /\ fetch_probe.first > 0)
    => /\ http_attempts = fetch_probe.first
       /\ fetch_ret = fetch_probe.terminal

\* a call whose first attempt failed and whose second attempt yielded 429
\* returned the 429 response after two attempts
C21_Witness ==
    /\ FetchAdmitted
    /\ fetch_probe.first = 2
    /\ fetch_probe.terminal = Some(StatusOnly(429))
    /\ fetch_ret = Some(StatusOnly(429))
    /\ http_attempts = 2

\* C24: every admitted _fetch_with_retry call makes at least one and at most
\* MAX_RETRIES HTTP attempts and records exactly one outcome on the breaker:
\* record_success when some attempt yields a status below 500, otherwise one
\* record_failure after MAX_RETRIES attempts, whether the attempts ended in
\* 5xx responses, RequestExceptions or both
C24_OneOutcomePerCall ==
    FetchAdmitted
    => /\ http_attempts \in 1..MAX_RETRIES
       /\ fetch_probe.first > 0 => fetch_probe.records = <<"record_success">>
       /\ fetch_probe.first = 0
          => /\ fetch_probe.records = <<"record_failure">>
             /\ http_attempts = MAX_RETRIES

\* a call whose three attempts yielded both 5xx responses and
\* RequestExceptions recorded one failure
C24_Witness ==
    /\ FetchAdmitted
    /\ fetch_probe.first = 0
    /\ fetch_probe.mixed
    /\ http_attempts = MAX_RETRIES
    /\ fetch_probe.records = <<"record_failure">>

\* C25: after an admitted call that obtained a response with a status below
\* 500 the breaker is CLOSED with failure_count 0, whatever it was before;
\* and the breaker is out of CLOSED only when at least failure_threshold
\* failures were recorded since the last such response
C25_Below500ClosesBreaker ==
    /\ (FetchAdmitted /\ fetch_probe.first > 0)
       => /\ Val(circuit_breakers["testnet"]).state = CLOSED
          /\ Val(circuit_breakers["testnet"]).failure_count = 0
    /\ (/\ IsSome(circuit_breakers["testnet"])
        /\ Val(circuit_breakers["testnet"]).state # CLOSED)
       => consecutive_failures["testnet"] >= CIRCUIT_BREAKER_FAILURE_THRESHOLD

\* a call that met the breaker OPEN after the recovery time and obtained a
\* 404 left it CLOSED with failure_count 0
C25_Witness ==
    /\ FetchAdmitted
    /\ fetch_probe.prior_state = OPEN
    /\ fetch_probe.terminal = Some(StatusOnly(404))
    /\ Val(circuit_breakers["testnet"]).state = CLOSED
    /\ Val(circuit_breakers["testnet"]).failure_count = 0

\* the last operation was an admitted call that met the breaker OPEN or
\* HALF_OPEN (the trial call) and exhausted its retries
TrialExhausted ==
    /\ FetchAdmitted
    /\ fetch_probe.prior_state \in {OPEN, HALF_OPEN}
    /\ fetch_probe.first = 0

\* C26: when the trial call exhausts its retries the breaker is OPEN when
\* the call returns and last_failure_time is the time of that failure
C26_FailedTrialReopens ==
    TrialExhausted
    => /\ Val(circuit_breakers["testnet"]).state = OPEN
       /\ Val(circuit_breakers["testnet"]).last_failure_time = Some(now)

\* a trial call admitted recovery_time after the breaker opened exhausted
\* its retries and reopened the breaker
C26_Witness ==
    /\ TrialExhausted
    /\ fetch_probe.prior_state = OPEN
    /\ now > CIRCUIT_BREAKER_RECOVERY_TIME
    /\ Val(circuit_breakers["testnet"]).state = OPEN
    /\ Val(circuit_breakers["testnet"]).last_failure_time = Some(now)
    /\ Val(circuit_breakers["testnet"]).failure_count > CIRCUIT_BREAKER_FAILURE_THRESHOLD

(***************************************************************************)
(* Two callers run _fetch_with_retry on the same network at the same time. *)
(* The breaker has no lock, so a caller can be preempted between any two   *)
(* reads or writes of the breaker's attributes; each action below is one   *)
(* such read or write.  `failure_count += 1` is a load followed by a store.*)
(***************************************************************************)
\* what the race actions leave alone
raceFrame ==
    <<cb_ret, fetch_ret, http_attempts, consecutive_failures, smVars, roundVars, clientVars,
      loopVars, load_ret, alert_ret, fetch_probe, key_probe>>

\* the shared breaker
SharedBreaker == Val(circuit_breakers["testnet"])

\* caller t moves to statement label, the breaker becomes b
RaceMove(t, label, b) ==
    /\ race_pc' = [race_pc EXCEPT ![t] = label]
    /\ circuit_breakers' = [circuit_breakers EXCEPT !["testnet"] = Some(b)]
    /\ op' = "fetch_concurrent"
    /\ UNCHANGED <<now, ticks, raceFrame>>

\* _fetch_with_retry starts: the breaker is looked up (created if absent)
RaceBegin(t) ==
    /\ race_pc[t] = "idle"
    /\ race_calls < MaxRaceCalls
    /\ race_calls' = race_calls + 1
    /\ RaceMove(t, "ce_state", Breaker(circuit_breakers, "testnet"))
    /\ UNCHANGED <<race_tmp, race_failures, race_success>>

\* can_execute: the tests of self.state
CE_ReadState(t) ==
    /\ race_pc[t] = "ce_state"
    /\ RaceMove(t, IF SharedBreaker.state = OPEN THEN "ce_elapsed" ELSE "requesting",
                SharedBreaker)
    /\ UNCHANGED <<race_tmp, race_calls, race_failures, race_success>>

\* can_execute: the test of last_failure_time against the clock; when the
\* recovery time has not passed it returns False and the fetch returns None
CE_Elapsed(t) ==
    /\ race_pc[t] = "ce_elapsed"
    /\ RaceMove(t, IF /\ IsSome(SharedBreaker.last_failure_time)
                      /\ now - Val(SharedBreaker.last_failure_time) >= SharedBreaker.recovery_time
                   THEN "ce_half" ELSE "idle",
                SharedBreaker)
    /\ UNCHANGED <<race_tmp, race_calls, race_failures, race_success>>

\* can_execute: self.state = HALF_OPEN, return True
CE_HalfOpen(t) ==
    /\ race_pc[t] = "ce_half"
    /\ RaceMove(t, "requesting", [SharedBreaker EXCEPT !.state = HALF_OPEN])
    /\ UNCHANGED <<race_tmp, race_calls, race_failures, race_success>>

\* the attempts of the fetch end: with a response below 500 (ok) the caller
\* goes on to record_success(), otherwise to record_failure()
RaceRequest(t, ok) ==
    /\ race_pc[t] = "requesting"
    /\ RaceMove(t, IF ok THEN "rs_reset" ELSE "rf_load", SharedBreaker)
    /\ race_failures' = IF ok THEN race_failures ELSE race_failures + 1
    /\ race_success' = (race_success \/ ok)
    /\ UNCHANGED <<race_tmp, race_calls>>

\* record_failure: load self.failure_count
RF_Load(t) ==
    /\ race_pc[t] = "rf_load"
    /\ race_tmp' = [race_tmp EXCEPT ![t] = SharedBreaker.failure_count]
    /\ RaceMove(t, "rf_store", SharedBreaker)
    /\ UNCHANGED <<race_calls, race_failures, race_success>>

\* record_failure: store the loaded value plus one
RF_Store(t) ==
    /\ race_pc[t] = "rf_store"
    /\ race_tmp' = [race_tmp EXCEPT ![t] = 0]
    /\ RaceMove(t, "rf_stamp", [SharedBreaker EXCEPT !.failure_count = race_tmp[t] + 1])
    /\ UNCHANGED <<race_calls, race_failures, race_success>>

\* record_failure: self.last_failure_time = time.time()
RF_Stamp(t) ==
    /\ race_pc[t] = "rf_stamp"
    /\ RaceMove(t, "rf_test", [SharedBreaker EXCEPT !.last_failure_time = Some(now)])
    /\ UNCHANGED <<race_tmp, race_calls, race_failures, race_success>>

\* record_failure: if self.failure_count >= self.failure_threshold
RF_Test(t) ==
    /\ race_pc[t] = "rf_test"
    /\ RaceMove(t, IF SharedBreaker.failure_count >= SharedBreaker.failure_threshold
                   THEN "rf_open" ELSE "idle",
                SharedBreaker)
    /\ UNCHANGED <<race_tmp, race_calls, race_failures, race_success>>

\* record_failure: self.state = CircuitState.OPEN
RF_Open(t) ==
    /\ race_pc[t] = "rf_open"
    /\ RaceMove(t, "idle", [SharedBreaker EXCEPT !.state = OPEN])
    /\ UNCHANGED <<race_tmp, race_calls, race_failures, race_success>>

\* record_success: self.failure_count = 0
RS_Reset(t) ==
    /\ race_pc[t] = "rs_reset"
    /\ RaceMove(t, "rs_close", [SharedBreaker EXCEPT !.failure_count = 0])
    /\ UNCHANGED <<race_tmp, race_calls, race_failures, race_success>>

\* record_success: self.state = CircuitState.CLOSED
RS_Close(t) ==
    /\ race_pc[t] = "rs_close"
    /\ RaceMove(t, "idle", [SharedBreaker EXCEPT !.state = CLOSED])
    /\ UNCHANGED <<race_tmp, race_calls, race_failures, race_success>>

AdvanceClockRace ==
    /\ ticks < MaxRaceTicks
    /\ ticks' = ticks + 1
    /\ now' = now + CIRCUIT_BREAKER_RECOVERY_TIME
    /\ op' = "tick"
    /\ UNCHANGED <<circuit_breakers, raceVars, raceFrame>>

NextRace ==
    \/ \E t \in Callers :
          \/ RaceBegin(t)
          \/ CE_ReadState(t)
          \/ CE_Elapsed(t)
          \/ CE_HalfOpen(t)
          \/ \E ok \in BOOLEAN : RaceRequest(t, ok)
          \/ RF_Load(t)
          \/ RF_Store(t)
          \/ RF_Stamp(t)
          \/ RF_Test(t)
          \/ RF_Open(t)
          \/ RS_Reset(t)
          \/ RS_Close(t)
    \/ AdvanceClockRace

SpecRace == Init /\ [][NextRace]_vars

\* no caller is inside _fetch_with_retry
C14_Quiescent == \A t \in Callers : race_pc[t] = "idle"

\* C14: with two callers running calls for the same network concurrently
\* the breaker stays consistent under every interleaving: no failure
\* increment is lost (as long as no success reset the counter, the counter
\* equals the number of record_failure() calls once they have returned), and
\* whenever the state is OPEN or HALF_OPEN, failure_count >= failure_threshold.
\* Both are read when no caller is inside a call.
C14_ConsistentUnderInterleaving ==
    (race_calls > 0 /\ C14_Quiescent) =>
        /\ ~race_success => SharedBreaker.failure_count = race_failures
        /\ SharedBreaker.state \in {OPEN, HALF_OPEN}
              => SharedBreaker.failure_count >= SharedBreaker.failure_threshold

\* C27: after the breaker moved to HALF_OPEN one call is admitted until its
\* outcome is recorded: a call whose can_execute() reads the state HALF_OPEN
\* while another call is between its admission and the recording of its
\* outcome is not admitted
C27_SingleTrialInFlight ==
    [][\A t \in Callers :
          (/\ race_pc[t] = "ce_state"
           /\ race_pc'[t] = "requesting"
           /\ SharedBreaker.state = HALF_OPEN)
          => ~(\E u \in Callers \ {t} : race_pc[u] = "requesting")]_vars

(***************************************************************************)
(* huginn.py: HuginnClient._get_current_network_round                      *)
(* The servers' behaviour during one call is the `world`: the answer to    *)
(* each URL the call may fetch (one attempt outcome, repeated on retry).   *)
(***************************************************************************)
\* the three attempts of a fetch against a server that keeps answering o
ConstAttempts(o) == [i \in 1..MAX_RETRIES |-> o]

\* _get_active_validator_id_via_gmonads: gmonads is "no_client", "unavailable"
\* (get_epoch_validators returns None), "raises", "no_active", or "active"
\* (the list has an active validator, whose val_index is returned)
get_active_validator_id_via_gmonads(gmonads) ==
    IF gmonads = "active" THEN Some(7) ELSE None

\* what the resolver does with the JSON of a response: "round" with the
\* value, "skip" (nothing usable, or ValueError/KeyError caught), or "raise"
\* (an AttributeError from .get on a value that is not a dict)
RoundOfBody(body) ==
    IF body.kind = "invalid" THEN [act |-> "skip", round |-> 0]
    ELSE IF body.kind \in {"list", "empty_list"} THEN [act |-> "raise", round |-> 0]
    ELSE IF body.kind = "empty_object" THEN [act |-> "skip", round |-> 0]
    ELSE IF ~(body.success /\ body.uptime_kind # "missing") THEN [act |-> "skip", round |-> 0]
    ELSE IF body.uptime_kind \in {"null", "string"} THEN [act |-> "raise", round |-> 0]
    ELSE IF body.uptime_kind = "empty" THEN [act |-> "skip", round |-> 0]
    ELSE LET current_round == body.last_round
         IN  IF IsSome(current_round) /\ Val(current_round).t = "num" /\ Val(current_round).n # 0
             THEN [act |-> "round", round |-> Val(current_round).n]
             ELSE [act |-> "skip", round |-> 0]

\* one pass of the loop over the reference validators, for a reference
\* whose URL answers o; acc carries the breaker, successful_rounds, the
\* responses the fetches returned and whether an exception left the loop
RefStep(acc, t, o) ==
    The({LET a1 == [acc EXCEPT !.cb = f.cb, !.responses = Append(@, f.response)]
         IN  IF f.response = None THEN a1
             ELSE IF Val(f.response).status_code = 429 THEN a1
             ELSE IF Val(f.response).status_code >= 400 THEN a1
             ELSE LET d == RoundOfBody(Val(f.response).body)
                  IN  IF d.act = "raise" THEN [a1 EXCEPT !.raised = TRUE]
                      ELSE IF d.act = "round"
                      THEN [a1 EXCEPT !.successful_rounds = Append(@, d.round)]
                      ELSE a1
         : f \in {fetch_with_retry(acc.cb, t, ConstAttempts(o))}})

\* the loop over the reference validators from index i on
RECURSIVE RefLoop(_, _, _, _)
RefLoop(acc, t, refs, i) ==
    IF i > Len(REFERENCE_VALIDATOR_IDS) \/ acc.raised THEN acc
    ELSE The({RefLoop(a, t, refs, i + 1) : a \in {RefStep(acc, t, refs[i])}})

\* max() of a non-empty list
MaxOf(rounds) ==
    CHOOSE m \in {rounds[k] : k \in 1..Len(rounds)} : \A k \in 1..Len(rounds) : rounds[k] <= m

\* strategy 2 that keeps a cached round larger than the one just resolved
MultiValidatorStrategy_KeepsLarger(c, network, t, world, hint_response) ==
    The({LET base == [cb |-> acc.cb, rounds |-> c.rounds, times |-> c.times,
                      hint_response |-> hint_response, ref_responses |-> acc.responses,
                      cache_hit |-> FALSE]
         IN  IF acc.raised
             THEN base @@ [raised |-> TRUE, round |-> None, from_cache |-> FALSE]
             ELSE IF acc.successful_rounds # << >>
             THEN LET max_round == MaxOf(acc.successful_rounds)
                      kept == IF IsSome(c.rounds) /\ Val(c.rounds) > max_round
                              THEN Val(c.rounds) ELSE max_round
                  IN  [base EXCEPT !.rounds = Some(kept), !.times = Some(t)]
                      @@ [raised |-> FALSE, round |-> Some(max_round), from_cache |-> FALSE]
             ELSE base @@ [raised |-> FALSE, round |-> c.rounds,
                           from_cache |-> IsSome(c.rounds)]
         : acc \in {RefLoop([cb |-> c.cb, successful_rounds |-> << >>, responses |-> << >>,
                             raised |-> FALSE], t, world.refs, 1)}})

\* strategy 2 and the stale fallback, on the client state c
MultiValidatorStrategy(c, network, t, world, hint_response) ==
    The({LET base == [cb |-> acc.cb, rounds |-> c.rounds, times |-> c.times,
                      hint_response |-> hint_response, ref_responses |-> acc.responses,
                      cache_hit |-> FALSE]
         IN  IF acc.raised
             THEN base @@ [raised |-> TRUE, round |-> None, from_cache |-> FALSE]
             ELSE IF acc.successful_rounds # << >>
             THEN LET max_round == MaxOf(acc.successful_rounds)
                  IN  [base EXCEPT !.rounds = Some(max_round), !.times = Some(t)]
                      @@ [raised |-> FALSE, round |-> Some(max_round), from_cache |-> FALSE]
             ELSE base @@ [raised |-> FALSE, round |-> c.rounds,
                           from_cache |-> IsSome(c.rounds)]
         : acc \in {RefLoop([cb |-> c.cb, successful_rounds |-> << >>, responses |-> << >>,
                             raised |-> FALSE], t, world.refs, 1)}})

\* strategy 1 after the fetch f of the hinted validator's URL returned
HintedQuery(c, network, t, world, f) ==
    LET c1 == [c EXCEPT !.cb = f.cb]
        d == IF IsSome(f.response) /\ Val(f.response).status_code = 200
             THEN RoundOfBody(Val(f.response).body)
             ELSE [act |-> "skip", round |-> 0]
    IN  IF d.act = "raise"
        THEN [cb |-> f.cb, rounds |-> c.rounds, times |-> c.times,
              hint_response |-> f.response, ref_responses |-> << >>,
              cache_hit |-> FALSE,
              raised |-> TRUE, round |-> None, from_cache |-> FALSE]
        ELSE IF d.act = "round"
        THEN [cb |-> f.cb, rounds |-> Some(d.round), times |-> Some(t),
              hint_response |-> f.response, ref_responses |-> << >>,
              cache_hit |-> FALSE,
              raised |-> FALSE, round |-> Some(d.round), from_cache |-> FALSE]
        ELSE MultiValidatorStrategy(c1, network, t, world, f.response)

\* _get_current_network_round whose cache hits restart the age of the entry
get_current_network_round_RefreshesTime(c, network, gmonads, world, t) ==
    LET cached_time == IF IsSome(c.times) THEN Val(c.times) ELSE 0
    IN  IF IsSome(c.rounds) /\ t - cached_time < NETWORK_ROUND_TTL
        THEN [cb |-> c.cb, rounds |-> c.rounds, times |-> Some(t),
              hint_response |-> None, ref_responses |-> << >>, cache_hit |-> TRUE,
              raised |-> FALSE, round |-> c.rounds, from_cache |-> TRUE,
              gmonads_called |-> FALSE, hint_queried |-> FALSE]
        ELSE LET active_validator_id == get_active_validator_id_via_gmonads(gmonads)
             IN  (IF IsSome(active_validator_id)
                  THEN The({HintedQuery(c, network, t, world, f)
                            : f \in {fetch_with_retry(c.cb, t, ConstAttempts(world.hint))}})
                  ELSE MultiValidatorStrategy(c, network, t, world, None))
                 @@ [gmonads_called |-> gmonads # "no_client",
                     hint_queried |-> IsSome(active_validator_id)]

\* _get_current_network_round for one network; c holds that network's
\* breaker (cb), cached round (rounds) and its time (times); the result also
\* tells whether gmonads was consulted and whether the hinted URL was fetched
get_current_network_round(c, network, gmonads, world, t) ==
    LET cached_time == IF IsSome(c.times) THEN Val(c.times) ELSE 0
    IN  IF IsSome(c.rounds) /\ t - cached_time < NETWORK_ROUND_TTL
        THEN [cb |-> c.cb, rounds |-> c.rounds, times |-> c.times,
              hint_response |-> None, ref_responses |-> << >>, cache_hit |-> TRUE,
              raised |-> FALSE, round |-> c.rounds, from_cache |-> TRUE,
              gmonads_called |-> FALSE, hint_queried |-> FALSE]
        ELSE LET active_validator_id == get_active_validator_id_via_gmonads(gmonads)
             IN  (IF IsSome(active_validator_id)
                  THEN The({HintedQuery(c, network, t, world, f)
                            : f \in {fetch_with_retry(c.cb, t, ConstAttempts(world.hint))}})
                  ELSE MultiValidatorStrategy(c, network, t, world, None))
                 @@ [gmonads_called |-> gmonads # "no_client",
                     hint_queried |-> IsSome(active_validator_id)]

(***************************************************************************)
(* Answers of the Huginn servers                                           *)
(***************************************************************************)
\* round values a validator record can report
RoundValues == {ACTIVE_SET_ROUND_THRESHOLD + 100, ACTIVE_SET_ROUND_THRESHOLD + 101}

\* a transport failure on every attempt
TransportError == None

\* HTTP 200 with {"success": true, "uptime": {"last_round": r, "total_events": e}}
OkUptime(r, e) == Some([status_code |-> 200, body |-> UptimeBody(TRUE, Some(JNum(r)), e)])

\* HTTP 200 with a body of the given kind
OkBody(kind) == Some([status_code |-> 200, body |-> [EmptyBody EXCEPT !.kind = kind]])

\* HTTP 200 with {"success": success, "uptime": <null, a string or {}>} or
\* without the uptime key
OkOddUptime(success, uptime_kind) ==
    Some([status_code |-> 200,
          body |-> [EmptyBody EXCEPT !.kind = "object", !.success = success,
                                     !.uptime_kind = uptime_kind]])

\* answers that carry no round, in all their kinds
OddAnswers ==
    {Some(StatusOnly(c)) : c \in {404, 429, 500}}
    \cup {OkBody(k) : k \in {"invalid", "list", "empty_list", "empty_object"}}
    \cup {OkOddUptime(TRUE, k) : k \in {"missing", "null", "string", "empty"}}
    \cup {OkOddUptime(FALSE, "missing")}
    \cup {Some([status_code |-> 200, body |-> UptimeBody(TRUE, lr, 100)]) :
             lr \in {None, Some(JNum(0)), Some(JStr("150"))}}
    \cup {Some([status_code |-> 200, body |-> UptimeBody(FALSE, Some(JNum(150)), 100)])}

\* what a reference validator's URL answers when each reference is drawn freely
MainRefAnswers == {TransportError} \cup {OkUptime(r, 100) : r \in RoundValues}

\* the answers of the five reference validators: every combination of the
\* main answers, one odd answer on all five, or one odd answer after a success
RefPatterns ==
    [1..Len(REFERENCE_VALIDATOR_IDS) -> MainRefAnswers]
    \cup {[i \in 1..Len(REFERENCE_VALIDATOR_IDS) |-> o] : o \in OddAnswers}
    \cup {[i \in 1..Len(REFERENCE_VALIDATOR_IDS) |->
              IF i = 1 THEN OkUptime(ACTIVE_SET_ROUND_THRESHOLD + 100, 100) ELSE IF i = 2 THEN o ELSE TransportError] :
            o \in OddAnswers}

\* the reference answers tried together with a hinted query
HintRefPatterns ==
    {[i \in 1..Len(REFERENCE_VALIDATOR_IDS) |-> o] : o \in {TransportError, OkUptime(ACTIVE_SET_ROUND_THRESHOLD + 100, 100)}}
    \cup {[i \in 1..Len(REFERENCE_VALIDATOR_IDS) |->
              IF i = 3 THEN OkUptime(ACTIVE_SET_ROUND_THRESHOLD + 101, 100) ELSE TransportError]}

\* the worlds a round resolution is run in: the state of gmonads, the answer
\* of the hinted URL, the answers of the reference URLs
RoundWorlds ==
    {[gmonads |-> g, hint |-> TransportError, refs |-> p] :
        g \in {"no_client"}, p \in RefPatterns}
    \cup {[gmonads |-> g, hint |-> TransportError, refs |-> p] :
        g \in {"unavailable", "raises", "no_active"}, p \in HintRefPatterns}
    \cup {[gmonads |-> "active", hint |-> h, refs |-> p] :
        h \in MainRefAnswers \cup OddAnswers, p \in HintRefPatterns}

\* the round a response reports: the last_round of a 200 answer that is a
\* JSON object with success true and an uptime object holding a positive integer
ReportedRound(response) ==
    IF /\ IsSome(response)
       /\ Val(response).status_code = 200
       /\ Val(response).body.kind = "object"
       /\ Val(response).body.success
       /\ Val(response).body.uptime_kind = "object"
       /\ IsSome(Val(response).body.last_round)
       /\ Val(Val(response).body.last_round).t = "num"
       /\ Val(Val(response).body.last_round).n > 0
    THEN Some(Val(Val(response).body.last_round).n)
    ELSE None

\* a direct call of _get_current_network_round
ResolveRound(network, world) ==
    LET cbs == get_circuit_breaker(circuit_breakers, network)
        c == [cb |-> Val(cbs[network]), rounds |-> network_rounds[network],
              times |-> network_round_times[network]]
    IN  \E r \in {get_current_network_round(c, network, world.gmonads, world, now)} :
        /\ r.cb.failure_count <= MaxFailures
        /\ circuit_breakers' =
               IF r.cache_hit THEN circuit_breakers ELSE [cbs EXCEPT ![network] = Some(r.cb)]
        /\ network_rounds' = [network_rounds EXCEPT ![network] = r.rounds]
        /\ network_round_times' = [network_round_times EXCEPT ![network] = r.times]
        /\ round_ret' = [raised |-> r.raised, round |-> r.round, from_cache |-> r.from_cache]
        /\ round_probe' =
               [cache_hit |-> r.cache_hit,
                hint_round |-> ReportedRound(r.hint_response),
                ref_rounds |-> {Val(ReportedRound(r.ref_responses[k])) :
                                  k \in {j \in 1..Len(r.ref_responses) :
                                           IsSome(ReportedRound(r.ref_responses[j]))}},
                ref_queries |-> Len(r.ref_responses),
                prior |-> network_rounds[network],
                gmonads_called |-> r.gmonads_called,
                hint_queried |-> r.hint_queried]
        /\ round_populated' = [round_populated EXCEPT ![network] = @ \/ IsSome(r.rounds)]
        /\ op' = "resolve_round"
        /\ cb_ret' = None
        /\ fetch_ret' = None
        /\ http_attempts' = 0
        /\ UNCHANGED <<raceVars, loopVars, load_ret, alert_ret, fetch_probe, key_probe, now, ticks,
                       consecutive_failures, smVars, clientVars>>

\* clock steps around the recovery time and the round TTL
RoundClockSteps == {CIRCUIT_BREAKER_RECOVERY_TIME, NETWORK_ROUND_TTL}

\* time passes
AdvanceClockRound(d) ==
    /\ ticks < MaxRoundTicks
    /\ ticks' = ticks + 1
    /\ now' = now + d
    /\ op' = "tick"
    /\ round_ret' = NoRoundResult
    /\ round_probe' = NoRoundProbe
    /\ UNCHANGED <<raceVars, loopVars, load_ret, alert_ret, fetch_probe, key_probe, network_rounds, network_round_times, round_populated, cbVars, smVars,
                   clientVars>>

\* a call of clear_cache()
ClearCache ==
    /\ \E n \in Networks : IsSome(network_rounds[n]) \/ \E k \in CacheKeys : IsSome(cache[k])
    /\ cache' = [k \in CacheKeys |-> None]
    /\ cache_times' = [k \in CacheKeys |-> None]
    /\ network_rounds' = [n \in Networks |-> None]
    /\ network_round_times' = [n \in Networks |-> None]
    /\ op' = "clear_cache"
    /\ round_ret' = NoRoundResult
    /\ round_probe' = NoRoundProbe
    /\ UNCHANGED <<raceVars, loopVars, load_ret, alert_ret, fetch_probe, key_probe, now, ticks, round_populated, cbVars, smVars, uptime_ret, uptime_probe,
                   status_ret, cv_ret, client_calls>>

NextRound ==
    \/ \E w \in RoundWorlds : ResolveRound("testnet", w)
    \/ ClearCache
    \/ \E d \in RoundClockSteps : AdvanceClockRound(d)

SpecRound == Init /\ [][NextRound]_vars

\* the largest element of a non-empty set of rounds
C10_Largest(S) == CHOOSE m \in S : \A x \in S : x <= m

\* the resolution just made found the round cache expired or empty, got no
\* round from a hinted query, and got a round from at least one reference
C10_Case ==
    /\ op' = "resolve_round"
    /\ ~round_probe'.cache_hit
    /\ round_probe'.hint_round = None
    /\ round_probe'.ref_rounds # {}

\* C10: when the round cache is not within its TTL and no hinted query
\* succeeds, the resolved round is the maximum of the last_round values of
\* the reference validators whose query succeeded, whatever the other
\* references did; that maximum is cached with the current time and returned
\* as fresh.
C10_MaxOfSuccessfulReferences ==
    [][C10_Case =>
         LET m == C10_Largest(round_probe'.ref_rounds)
         IN  /\ round_ret' = [raised |-> FALSE, round |-> Some(m), from_cache |-> FALSE]
             /\ network_rounds'["testnet"] = Some(m)
             /\ network_round_times'["testnet"] = Some(now)]_vars

\* the resolution just made found the round cache expired or empty and got
\* no round from the hinted query nor from any reference validator
C11_AllFailed ==
    /\ op' = "resolve_round"
    /\ ~round_probe'.cache_hit
    /\ round_probe'.hint_round = None
    /\ round_probe'.ref_rounds = {}

\* C11: when the hinted query and every reference query fail, the resolver
\* returns the round the cache held before the call, whatever its age, marked
\* as cached; and a resolution returns null only if the round cache of the
\* network has never been populated.
C11_StaleRoundFallback ==
    /\ [][C11_AllFailed =>
             /\ ~round_ret'.raised
             /\ round_ret'.round = round_probe'.prior
             /\ IsSome(round_probe'.prior) => round_ret'.from_cache
             /\ network_rounds' = network_rounds]_vars
    /\ [][(op' = "resolve_round" /\ round_ret'.round = None)
             => ~round_populated["testnet"]]_vars

\* the round cache of testnet holds an entry younger than the round TTL
RoundCacheFresh ==
    /\ IsSome(network_rounds["testnet"])
    /\ IsSome(network_round_times["testnet"])
    /\ now - Val(network_round_times["testnet"]) < NETWORK_ROUND_TTL

\* C28: a round resolution that finds the cache entry of its network younger
\* than the round TTL returns the cached round marked as cached, consults
\* neither gmonads nor Huginn, and leaves the round cache, its timestamp and
\* the circuit breakers as they were
C28_FreshCacheShortCircuits ==
    [][(RoundCacheFresh /\ op' = "resolve_round")
       => /\ round_ret' = [raised |-> FALSE, round |-> network_rounds["testnet"],
                           from_cache |-> TRUE]
          /\ ~round_probe'.gmonads_called
          /\ ~round_probe'.hint_queried
          /\ round_probe'.ref_queries = 0
          /\ network_rounds' = network_rounds
          /\ network_round_times' = network_round_times
          /\ circuit_breakers' = circuit_breakers]_vars

\* a round cached at time 1 was returned from the cache recovery_time later
C28_Witness ==
    /\ op = "resolve_round"
    /\ RoundCacheFresh
    /\ network_round_times["testnet"] = Some(1)
    /\ now = 1 + CIRCUIT_BREAKER_RECOVERY_TIME
    /\ round_probe.cache_hit
    /\ round_probe.ref_queries = 0
    /\ round_ret = [raised |-> FALSE, round |-> network_rounds["testnet"], from_cache |-> TRUE]

\* the last resolution returned a round it resolved during the call
C35_Resolved ==
    /\ op = "resolve_round"
    /\ ~round_ret.raised
    /\ IsSome(round_ret.round)
    /\ ~round_ret.from_cache

\* C35: after every successful resolution the round cache of the network
\* holds exactly the round just resolved, stamped with the current time,
\* also when that round is lower than the one cached before
C35_ResolvedRoundOverwrites ==
    C35_Resolved
    => /\ network_rounds["testnet"] = round_ret.round
       /\ network_round_times["testnet"] = Some(now)

\* a resolution returned a round lower than the one the expired cache held,
\* and the cache now holds the lower round
C35_Witness ==
    /\ C35_Resolved
    /\ IsSome(round_probe.prior)
    /\ Val(round_ret.round) < Val(round_probe.prior)
    /\ network_rounds["testnet"] = round_ret.round
    /\ now >= 1 + NETWORK_ROUND_TTL

\* C29: a resolution that misses the cache and gets an integer round from
\* the validator gmonads named caches that round, returns it as fresh and
\* queries no reference validator; without a hint, or when the hinted query
\* fails or reports no round, it queries the reference validators
C29_HintThenReferences ==
    (op = "resolve_round" /\ ~round_probe.cache_hit)
    => IF round_probe.hint_queried /\ IsSome(round_probe.hint_round)
       THEN /\ round_ret = [raised |-> FALSE, round |-> round_probe.hint_round,
                            from_cache |-> FALSE]
            /\ network_rounds["testnet"] = round_probe.hint_round
            /\ network_round_times["testnet"] = Some(now)
            /\ round_probe.ref_queries = 0
       ELSE round_probe.ref_queries > 0

(***************************************************************************)
(* huginn.py: HuginnClient.get_validator_uptime and _parse_uptime_response *)
(* A ValidatorUptime keeps the fields the status depends on; the           *)
(* identification and percentage fields are copied from the body and       *)
(* left out.                                                               *)
(***************************************************************************)
\* _parse_uptime_response on the fields last_round and total_events of `data`:
\* "record" with the ValidatorUptime, or "raise" (TypeError of int - str)
parse_uptime_response_StrictThreshold(secp_address, last_round, total_events0, current_network_round, used_cached_round, t) ==
    LET total_events == total_events0
        is_ever_active == total_events > 0
        validator_last_round == last_round
        rec(is_active, round_diff, confidence) ==
            [secp_address |-> secp_address,
             is_active |-> is_active,
             is_ever_active |-> is_ever_active,
             total_events |-> total_events,
             last_round |-> validator_last_round,
             fetched_at |-> t,
             round_diff |-> round_diff,
             current_network_round |-> current_network_round,
             confidence |-> confidence]
    IN  IF IsSome(current_network_round) /\ IsSome(validator_last_round)
        THEN IF Val(validator_last_round).t # "num"
             THEN [act |-> "raise", uptime |-> None]
             ELSE LET round_diff == Val(current_network_round) - Val(validator_last_round).n
                  IN  [act |-> "record",
                       uptime |-> Some(rec(round_diff < ACTIVE_SET_ROUND_THRESHOLD,
                                           Some(round_diff),
                                           IF used_cached_round THEN "medium" ELSE "high"))]
        ELSE IF is_ever_active
        THEN [act |-> "record", uptime |-> Some(rec(FALSE, None, "unknown"))]
        ELSE [act |-> "record", uptime |-> Some(rec(FALSE, None, "high"))]

\* the parser assuming an ever-active validator active when no round comparison
\* can be made
parse_uptime_response_AssumesActive(secp_address, last_round, total_events0, current_network_round, used_cached_round, t) ==
    LET total_events == total_events0
        is_ever_active == total_events > 0
        validator_last_round == last_round
        rec(is_active, round_diff, confidence) ==
            [secp_address |-> secp_address,
             is_active |-> is_active,
             is_ever_active |-> is_ever_active,
             total_events |-> total_events,
             last_round |-> validator_last_round,
             fetched_at |-> t,
             round_diff |-> round_diff,
             current_network_round |-> current_network_round,
             confidence |-> confidence]
    IN  IF IsSome(current_network_round) /\ IsSome(validator_last_round)
        THEN IF Val(validator_last_round).t # "num"
             THEN [act |-> "raise", uptime |-> None]
             ELSE LET round_diff == Val(current_network_round) - Val(validator_last_round).n
                  IN  [act |-> "record",
                       uptime |-> Some(rec(round_diff <= ACTIVE_SET_ROUND_THRESHOLD,
                                           Some(round_diff),
                                           IF used_cached_round THEN "medium" ELSE "high"))]
        ELSE IF is_ever_active
        THEN [act |-> "record", uptime |-> Some(rec(TRUE, None, "unknown"))]
        ELSE [act |-> "record", uptime |-> Some(rec(FALSE, None, "high"))]

parse_uptime_response_AlwaysHigh(secp_address, last_round, total_events0, current_network_round, used_cached_round, t) ==
    LET total_events == total_events0
        is_ever_active == total_events > 0
        validator_last_round == last_round
        rec(is_active, round_diff, confidence) ==
            [secp_address |-> secp_address,
             is_active |-> is_active,
             is_ever_active |-> is_ever_active,
             total_events |-> total_events,
             last_round |-> validator_last_round,
             fetched_at |-> t,
             round_diff |-> round_diff,
             current_network_round |-> current_network_round,
             confidence |-> confidence]
    IN  IF IsSome(current_network_round) /\ IsSome(validator_last_round)
        THEN IF Val(validator_last_round).t # "num"
             THEN [act |-> "raise", uptime |-> None]
             ELSE LET round_diff == Val(current_network_round) - Val(validator_last_round).n
                  IN  [act |-> "record",
                       uptime |-> Some(rec(round_diff <= ACTIVE_SET_ROUND_THRESHOLD,
                                           Some(round_diff),
                                           "high"))]
        ELSE IF is_ever_active
        THEN [act |-> "record", uptime |-> Some(rec(FALSE, None, "unknown"))]
        ELSE [act |-> "record", uptime |-> Some(rec(FALSE, None, "high"))]

parse_uptime_response(secp_address, last_round, total_events0, current_network_round, used_cached_round, t) ==
    LET total_events == total_events0
        is_ever_active == total_events > 0
        validator_last_round == last_round
        rec(is_active, round_diff, confidence) ==
            [secp_address |-> secp_address,
             is_active |-> is_active,
             is_ever_active |-> is_ever_active,
             total_events |-> total_events,
             last_round |-> validator_last_round,
             fetched_at |-> t,
             round_diff |-> round_diff,
             current_network_round |-> current_network_round,
             confidence |-> confidence]
    IN  IF IsSome(current_network_round) /\ IsSome(validator_last_round)
        THEN IF Val(validator_last_round).t # "num"
             THEN [act |-> "raise", uptime |-> None]
             ELSE LET round_diff == Val(current_network_round) - Val(validator_last_round).n
                  IN  [act |-> "record",
                       uptime |-> Some(rec(round_diff <= ACTIVE_SET_ROUND_THRESHOLD,
                                           Some(round_diff),
                                           IF used_cached_round THEN "medium" ELSE "high"))]
        ELSE IF is_ever_active
        THEN [act |-> "record", uptime |-> Some(rec(FALSE, None, "unknown"))]
        ELSE [act |-> "record", uptime |-> Some(rec(FALSE, None, "high"))]

\* what get_validator_uptime does with the body of a response below 400:
\* "cached" (response.json() raised ValueError), "none" (`not data`),
\* "raise" (.get on a list or a string), or the outcome of the parser
UptimeOfBody(secp_address, body, current_network_round, used_cached_round, t) ==
    IF body.kind = "invalid" THEN [act |-> "cached", uptime |-> None]
    ELSE IF body.kind = "list" THEN [act |-> "raise", uptime |-> None]
    ELSE IF body.kind \in {"empty_list", "empty_object"} THEN [act |-> "none", uptime |-> None]
    ELSE IF body.uptime_kind \in {"null", "empty"} THEN [act |-> "none", uptime |-> None]
    ELSE IF body.uptime_kind = "string" THEN [act |-> "raise", uptime |-> None]
    ELSE parse_uptime_response(secp_address, body.last_round, body.total_events,
                               current_network_round, used_cached_round, t)

cache_get_Nothing(c) == None

\* self._cache.get(cache_key): the record held for the key, however old
cache_get(c) == c.cache

\* the handling of the own response that stamps a stale record with the
\* current time when it returns it
OwnResponse_RestampsStale(c, secp_address, t, r, f) ==
    LET response == f.response
        after_fetch == [cb |-> f.cb, rounds |-> r.rounds, times |-> r.times,
                        cache |-> c.cache, cache_time |-> c.cache_time,
                        round_ret |-> [raised |-> r.raised, round |-> r.round,
                                       from_cache |-> r.from_cache],
                        cache_hit |-> FALSE, round_called |-> TRUE, own_queried |-> TRUE,
                        own_response |-> response]
        stale == [after_fetch EXCEPT !.cache_time = IF IsSome(c.cache) THEN Some(t) ELSE @]
                 @@ [raised |-> FALSE, value |-> cache_get(c)]
    IN  IF response = None THEN stale
        ELSE IF Val(response).status_code = 429 THEN stale
        ELSE IF Val(response).status_code >= 400 THEN stale
        ELSE LET p == UptimeOfBody(secp_address, Val(response).body, r.round,
                                   r.from_cache, t)
             IN  IF p.act = "cached" THEN stale
                 ELSE IF p.act = "raise"
                 THEN after_fetch @@ [raised |-> TRUE, value |-> None]
                 ELSE IF p.act = "none"
                 THEN after_fetch @@ [raised |-> FALSE, value |-> None]
                 ELSE [after_fetch EXCEPT !.cache = p.uptime, !.cache_time = Some(t)]
                      @@ [raised |-> FALSE, value |-> p.uptime]

\* get_validator_uptime after the response of the own URL arrived: f is
\* what _fetch_with_retry returned, r what the round lookup returned
OwnResponse(c, secp_address, t, r, f) ==
    LET response == f.response
        after_fetch == [cb |-> f.cb, rounds |-> r.rounds, times |-> r.times,
                        cache |-> c.cache, cache_time |-> c.cache_time,
                        round_ret |-> [raised |-> r.raised, round |-> r.round,
                                       from_cache |-> r.from_cache],
                        cache_hit |-> FALSE, round_called |-> TRUE, own_queried |-> TRUE,
                        own_response |-> response]
        stale == after_fetch @@ [raised |-> FALSE, value |-> cache_get(c)]
    IN  IF response = None THEN stale
        ELSE IF Val(response).status_code = 429 THEN stale
        ELSE IF Val(response).status_code >= 400 THEN stale
        ELSE LET p == UptimeOfBody(secp_address, Val(response).body, r.round,
                                   r.from_cache, t)
             IN  IF p.act = "cached" THEN stale
                 ELSE IF p.act = "raise"
                 THEN after_fetch @@ [raised |-> TRUE, value |-> None]
                 ELSE IF p.act = "none"
                 THEN after_fetch @@ [raised |-> FALSE, value |-> None]
                 ELSE [after_fetch EXCEPT !.cache = p.uptime, !.cache_time = Some(t)]
                      @@ [raised |-> FALSE, value |-> p.uptime]

\* get_validator_uptime after the round lookup returned (or raised) r
OwnQuery(c, secp_address, network, world, t, r) ==
    IF r.raised
    THEN [cb |-> r.cb, rounds |-> r.rounds, times |-> r.times,
          cache |-> c.cache, cache_time |-> c.cache_time,
          round_ret |-> [raised |-> r.raised, round |-> r.round, from_cache |-> r.from_cache],
          raised |-> TRUE, value |-> None, cache_hit |-> FALSE,
          round_called |-> TRUE, own_queried |-> FALSE, own_response |-> None]
    ELSE The({OwnResponse(c, secp_address, t, r, f)
              : f \in {fetch_with_retry(r.cb, t, ConstAttempts(world.own))}})

\* get_validator_uptime that does not look into the status cache first
get_validator_uptime_IgnoresCache(c, secp_address, network, gmonads, world, t) ==
    The({OwnQuery(c, secp_address, network, world, t, r)
         : r \in {get_current_network_round([cb |-> c.cb, rounds |-> c.rounds,
                                             times |-> c.times],
                                            network, gmonads, world, t)}})

\* get_validator_uptime for a non-empty address, on the client state c of
\* one cache key: breaker (cb), round cache (rounds, times), status cache
\* entry (cache, cache_time); round_ret is what the round lookup returned
get_validator_uptime(c, secp_address, network, gmonads, world, t) ==
    LET cached_time == IF IsSome(c.cache_time) THEN Val(c.cache_time) ELSE 0
    IN  IF IsSome(c.cache) /\ t - cached_time < CHECK_INTERVAL
        THEN [cb |-> c.cb, rounds |-> c.rounds, times |-> c.times,
              cache |-> c.cache, cache_time |-> c.cache_time,
              round_ret |-> NoRoundResult,
              raised |-> FALSE, value |-> c.cache, cache_hit |-> TRUE,
              round_called |-> FALSE, own_queried |-> FALSE, own_response |-> None]
        ELSE The({OwnQuery(c, secp_address, network, world, t, r)
                  : r \in {get_current_network_round([cb |-> c.cb, rounds |-> c.rounds,
                                                      times |-> c.times],
                                                     network, gmonads, world, t)}})

\* is_validator_active on the outcome u of get_validator_uptime
is_validator_active(u) ==
    IF u.raised THEN [NoStatusResult EXCEPT !.kind = "is_validator_active", !.raised = TRUE]
    ELSE [NoStatusResult EXCEPT
            !.kind = "is_validator_active",
            !.is_active = IF IsSome(u.value) THEN Some(Val(u.value).is_active) ELSE None]

\* get_active_set_status on the outcome u of get_validator_uptime
get_active_set_status(u) ==
    LET ret(is_active, message, round_diff) ==
            [kind |-> "get_active_set_status", raised |-> FALSE, is_active |-> is_active,
             message |-> message, round_diff |-> round_diff]
    IN  IF u.raised THEN [NoStatusResult EXCEPT !.kind = "get_active_set_status", !.raised = TRUE]
        ELSE IF ~IsSome(u.value) THEN ret(None, "Unable to fetch data", None)
        ELSE LET uptime == Val(u.value)
             IN  IF ~uptime.is_ever_active
                 THEN ret(Some(FALSE), "Never participated in consensus", Some(0))
                 ELSE IF uptime.round_diff = None
                 THEN ret(Some(TRUE), "Active (no round comparison available)", None)
                 ELSE IF uptime.is_active
                 THEN ret(Some(TRUE), "Active (.. rounds behind)", uptime.round_diff)
                 ELSE ret(Some(FALSE), "Inactive (.. rounds behind - exceeds threshold)",
                          uptime.round_diff)

(***************************************************************************)
(* cross_validation.py: CrossValidator                                     *)
(***************************************************************************)
evaluate_sources_GmonadsOnDisagreement(huginn_is_active, gmonads_is_active) ==
    IF huginn_is_active = None /\ gmonads_is_active = None
    THEN <<"low", TRUE, FALSE>>
    ELSE IF huginn_is_active # None /\ gmonads_is_active = None
    THEN <<"medium", TRUE, Val(huginn_is_active)>>
    ELSE IF huginn_is_active = None /\ gmonads_is_active # None
    THEN <<"medium", TRUE, Val(gmonads_is_active)>>
    ELSE IF huginn_is_active = gmonads_is_active
    THEN <<"high", TRUE, Val(huginn_is_active)>>
    ELSE <<"low", FALSE, Val(gmonads_is_active)>>

\* _evaluate_sources: <<confidence, sources_agree, recommended_status>>
evaluate_sources(huginn_is_active, gmonads_is_active) ==
    IF huginn_is_active = None /\ gmonads_is_active = None
    THEN <<"low", TRUE, FALSE>>
    ELSE IF huginn_is_active # None /\ gmonads_is_active = None
    THEN <<"medium", TRUE, Val(huginn_is_active)>>
    ELSE IF huginn_is_active = None /\ gmonads_is_active # None
    THEN <<"medium", TRUE, Val(gmonads_is_active)>>
    ELSE IF huginn_is_active = gmonads_is_active
    THEN <<"high", TRUE, Val(huginn_is_active)>>
    ELSE <<"low", FALSE, Val(huginn_is_active)>>

\* what gmonads_client.is_validator_in_active_set can do: a verdict, None,
\* or an exception
GmonadsVerdicts == {"true", "false", "none", "raises"}

\* validate_validator_status on the outcome of is_validator_active and on
\* the behaviour of gmonads
validate_validator_status(secp_address, huginn, gmonads) ==
    LET huginn_is_active == IF huginn.raised THEN None ELSE huginn.is_active
        gmonads_is_active == IF gmonads = "true" THEN Some(TRUE)
                             ELSE IF gmonads = "false" THEN Some(FALSE)
                             ELSE None
        e == evaluate_sources(huginn_is_active, gmonads_is_active)
    IN  [validator_secp |-> secp_address,
         huginn_is_active |-> huginn_is_active,
         gmonads_is_active |-> gmonads_is_active,
         sources_agree |-> e[2],
         confidence |-> e[1],
         recommended_status |-> e[3]]

(***************************************************************************)
(* Calls of the client and of the cross-validator                          *)
(***************************************************************************)
\* the validator's own last_round is 100, exactly the threshold behind the
\* lower network round and one more behind the higher, or ahead of both
\* the odd answers tried on the validator's own URL
OwnOddAnswers ==
    {Some(StatusOnly(c)) : c \in {404, 429, 500}}
    \cup {OkBody(k) : k \in {"invalid", "list", "empty_object"}}
    \cup {OkOddUptime(TRUE, k) : k \in {"null", "string"}}
    \cup {Some([status_code |-> 200, body |-> UptimeBody(TRUE, lr, 100)]) :
             lr \in {None, Some(JStr("150"))}}

\* HTTP 200 with the flat body of a validator that never signed: total_events
\* 0 and last_round null
NeverActiveAnswer == OkOddUptime(FALSE, "missing")

\* what the validator's own URL answers
OwnAnswers ==
    {TransportError, NeverActiveAnswer}
    \cup {OkUptime(r, e) : r \in {100, ACTIVE_SET_ROUND_THRESHOLD + 200}, e \in {0, 100}}
    \cup {Some([status_code |-> 200,
                body |-> [EmptyBody EXCEPT !.kind = "object", !.success = TRUE,
                                           !.last_round = Some(JNum(100)),
                                           !.total_events = 100]])}
    \cup OwnOddAnswers

\* all five reference validators answer o
AllRefs(o) == [i \in 1..Len(REFERENCE_VALIDATOR_IDS) |-> o]

\* a reference returns a round and the next one a JSON list
RefsWithList ==
    [i \in 1..Len(REFERENCE_VALIDATOR_IDS) |->
        IF i = 1 THEN OkUptime(ACTIVE_SET_ROUND_THRESHOLD + 100, 100)
        ELSE IF i = 2 THEN OkBody("list") ELSE TransportError]

\* the round lookups a status lookup is combined with, without gmonads
PlainRoundWorlds ==
    {[gmonads |-> "no_client", hint |-> TransportError, refs |-> p] :
        p \in {AllRefs(TransportError), AllRefs(Some(StatusOnly(404))),
               AllRefs(OkUptime(ACTIVE_SET_ROUND_THRESHOLD + 101, 100)), RefsWithList}}

\* and with gmonads naming an active validator
HintRoundWorlds ==
    {[gmonads |-> "active", hint |-> h, refs |-> AllRefs(TransportError)] :
        h \in {OkUptime(ACTIVE_SET_ROUND_THRESHOLD + 100, 100), OkOddUptime(TRUE, "string")}}

\* the world of a call: a round world and the answer of the own URL
WithOwn(roundWorlds, owns) ==
    {[gmonads |-> w.gmonads, hint |-> w.hint, refs |-> w.refs, own |-> o] :
        w \in roundWorlds, o \in owns}

\* own answers tried behind the status operations
StatusOwnAnswers ==
    {TransportError, OkUptime(100, 100), OkUptime(ACTIVE_SET_ROUND_THRESHOLD + 200, 100),
     Some([status_code |-> 200, body |-> UptimeBody(TRUE, None, 100)])}

\* the round lookups tried behind the status operations
StatusRoundWorlds ==
    {[gmonads |-> "no_client", hint |-> TransportError, refs |-> p] :
        p \in {AllRefs(Some(StatusOnly(404))),
               AllRefs(OkUptime(ACTIVE_SET_ROUND_THRESHOLD + 101, 100)), RefsWithList}}

\* the client state behind one cache key
ClientState(network, secp_address) ==
    [cb |-> Val(get_circuit_breaker(circuit_breakers, network)[network]),
     rounds |-> network_rounds[network],
     times |-> network_round_times[network],
     cache |-> cache[CacheKey(network, secp_address)],
     cache_time |-> cache_times[CacheKey(network, secp_address)]]

\* the client after get_validator_uptime returned (or raised) u
ClientAfterUptime(network, secp_address, u) ==
    /\ u.cb.failure_count <= MaxFailures
    /\ client_calls' = client_calls + 1
    /\ circuit_breakers' =
           IF u.cache_hit THEN circuit_breakers
           ELSE [get_circuit_breaker(circuit_breakers, network) EXCEPT ![network] = Some(u.cb)]
    /\ network_rounds' = [network_rounds EXCEPT ![network] = u.rounds]
    /\ network_round_times' = [network_round_times EXCEPT ![network] = u.times]
    /\ round_populated' = [round_populated EXCEPT ![network] = @ \/ IsSome(u.rounds)]
    /\ cache' = [cache EXCEPT ![CacheKey(network, secp_address)] = u.cache]
    /\ cache_times' = [cache_times EXCEPT ![CacheKey(network, secp_address)] = u.cache_time]
    /\ uptime_ret' = [raised |-> u.raised, value |-> u.value]
    /\ uptime_probe' = [cache_hit |-> u.cache_hit,
                        prior |-> cache[CacheKey(network, secp_address)],
                        prior_time |-> cache_times[CacheKey(network, secp_address)],
                        round_called |-> u.round_called,
                        own_queried |-> u.own_queried,
                        own_response |-> u.own_response]
    /\ round_ret' = u.round_ret
    /\ round_probe' = NoRoundProbe
    /\ cb_ret' = None
    /\ fetch_ret' = None
    /\ http_attempts' = 0
    /\ UNCHANGED <<now, ticks, consecutive_failures>>

\* get_validator_uptime called on its own: nothing but the client changes
UptimeEffect(network, secp_address, u) ==
    /\ ClientAfterUptime(network, secp_address, u)
    /\ UNCHANGED <<raceVars, loopVars, load_ret, alert_ret, fetch_probe, key_probe, smVars>>

\* a call of get_validator_uptime with a usable address
GetValidatorUptime(network, secp_address, world) ==
    /\ client_calls < MaxClientCalls
    /\ \E u \in {get_validator_uptime(ClientState(network, secp_address), secp_address,
                                      network, world.gmonads, world, now)} :
           /\ UptimeEffect(network, secp_address, u)
           /\ op' = "get_validator_uptime"
           /\ status_ret' = NoStatusResult
           /\ cv_ret' = None

\* a call of get_validator_uptime with no address or an empty one
GetValidatorUptimeNoAddress ==
    /\ client_calls < MaxClientCalls
    /\ client_calls' = client_calls + 1
    /\ op' = "get_validator_uptime"
    /\ uptime_ret' = NoUptimeResult
    /\ uptime_probe' = NoUptimeProbe
    /\ status_ret' = NoStatusResult
    /\ cv_ret' = None
    /\ round_ret' = NoRoundResult
    /\ round_probe' = NoRoundProbe
    /\ cb_ret' = None
    /\ fetch_ret' = None
    /\ http_attempts' = 0
    /\ UNCHANGED <<raceVars, loopVars, load_ret, alert_ret, fetch_probe, key_probe, now, ticks, circuit_breakers, consecutive_failures, network_rounds,
                   network_round_times, round_populated, cache, cache_times, smVars>>

\* a call of is_validator_active
IsValidatorActive(network, secp_address, world) ==
    /\ client_calls < MaxClientCalls
    /\ \E u \in {get_validator_uptime(ClientState(network, secp_address), secp_address,
                                      network, "no_client", world, now)} :
           /\ UptimeEffect(network, secp_address, u)
           /\ op' = "is_validator_active"
           /\ status_ret' = is_validator_active(u)
           /\ cv_ret' = None

\* a call of get_active_set_status
GetActiveSetStatus(network, secp_address, world) ==
    /\ client_calls < MaxClientCalls
    /\ \E u \in {get_validator_uptime(ClientState(network, secp_address), secp_address,
                                      network, "no_client", world, now)} :
           /\ UptimeEffect(network, secp_address, u)
           /\ op' = "get_active_set_status"
           /\ status_ret' = get_active_set_status(u)
           /\ cv_ret' = None

\* a call of CrossValidator.validate_validator_status
ValidateValidatorStatus(network, secp_address, world, gmonads) ==
    /\ client_calls < MaxClientCalls
    /\ \E u \in {get_validator_uptime(ClientState(network, secp_address), secp_address,
                                      network, "no_client", world, now)} :
           /\ UptimeEffect(network, secp_address, u)
           /\ op' = "validate_validator_status"
           /\ status_ret' = is_validator_active(u)
           /\ cv_ret' = Some(validate_validator_status(secp_address, is_validator_active(u), gmonads))

\* clock steps around the recovery time, the round TTL and the check interval
ClientClockSteps == {CIRCUIT_BREAKER_RECOVERY_TIME, NETWORK_ROUND_TTL, CHECK_INTERVAL}

\* time passes; the outputs of the last operation are forgotten
AdvanceClockClient(d) ==
    /\ ticks < MaxClientTicks
    /\ ticks' = ticks + 1
    /\ now' = now + d
    /\ op' = "tick"
    /\ uptime_ret' = NoUptimeResult
    /\ uptime_probe' = NoUptimeProbe
    /\ status_ret' = NoStatusResult
    /\ cv_ret' = None
    /\ round_ret' = NoRoundResult
    /\ round_probe' = NoRoundProbe
    /\ UNCHANGED <<raceVars, loopVars, load_ret, alert_ret, fetch_probe, key_probe, cache, cache_times, client_calls, network_rounds, network_round_times,
                   round_populated, cbVars, smVars>>

NextClient ==
    \/ \E w \in WithOwn(PlainRoundWorlds, OwnAnswers) \cup WithOwn(HintRoundWorlds, StatusOwnAnswers) :
          GetValidatorUptime("testnet", "0xAbC", w)
    \/ GetValidatorUptimeNoAddress
    \/ \E w \in WithOwn(StatusRoundWorlds, StatusOwnAnswers) :
          IsValidatorActive("testnet", "0xabc", w)
    \/ \E w \in WithOwn(StatusRoundWorlds, StatusOwnAnswers) :
          GetActiveSetStatus("testnet", "0xabc", w)
    \/ \E w \in WithOwn(StatusRoundWorlds, StatusOwnAnswers \ {OkUptime(100, 100)}),
          g \in GmonadsVerdicts :
          ValidateValidatorStatus("testnet", "0xabc", w, g)
    \/ \E d \in ClientClockSteps : AdvanceClockClient(d)

SpecClient == Init /\ [][NextClient]_vars

(***************************************************************************)
(* Properties of the client and of the cross-validator                     *)
(***************************************************************************)
\* the last operation called get_validator_uptime with a usable address
UptimeCalled ==
    /\ op \in {"get_validator_uptime", "is_validator_active", "get_active_set_status",
               "validate_validator_status"}
    /\ uptime_probe.cache_hit \/ uptime_probe.round_called

\* C4: no status operation reports a validator as active when the record
\* has no round comparison (round_diff is null): the record's is_active is
\* false, is_validator_active and get_active_set_status do not answer True,
\* and for an ever-active validator the confidence is 'unknown'.
C4_NoRoundComparisonNeverActive ==
    (/\ UptimeCalled
     /\ IsSome(uptime_ret.value)
     /\ Val(uptime_ret.value).round_diff = None)
    => /\ ~Val(uptime_ret.value).is_active
       /\ status_ret.is_active # Some(TRUE)
       /\ Val(uptime_ret.value).is_ever_active => Val(uptime_ret.value).confidence = "unknown"

\* the own query of the last call yielded no usable response: nothing came
\* back (circuit open or retries exhausted), HTTP 429, any status >= 400, or
\* a body that is not JSON
C5_NoUsableResponse ==
    /\ UptimeCalled
    /\ uptime_probe.own_queried
    /\ \/ uptime_probe.own_response = None
       \/ Val(uptime_probe.own_response).status_code >= 400
       \/ Val(uptime_probe.own_response).body.kind = "invalid"

C12_Records ==
    {Val(cache[k]) : k \in {kk \in CacheKeys : IsSome(cache[kk])}}
    \cup (IF IsSome(uptime_ret.value) THEN {Val(uptime_ret.value)} ELSE {})

\* C12: every record that has both a network round and a last_round has
\* round_diff = network round - last_round and is active exactly when
\* round_diff <= ACTIVE_SET_ROUND_THRESHOLD (equality and negative differences
\* included); every record is ever-active exactly when total_events > 0.
C12_RoundDiffDecidesActive ==
    \A u \in C12_Records :
        /\ u.is_ever_active <=> u.total_events > 0
        /\ (IsSome(u.current_network_round) /\ IsSome(u.last_round))
              => /\ u.round_diff
                      = Some(Val(u.current_network_round) - Val(u.last_round).n)
                 /\ u.is_active <=> Val(u.round_diff) <= ACTIVE_SET_ROUND_THRESHOLD

\* a call returned a record whose round_diff equals the threshold, active
C12_Witness ==
    /\ op = "get_validator_uptime"
    /\ IsSome(uptime_ret.value)
    /\ Val(uptime_ret.value).round_diff = Some(ACTIVE_SET_ROUND_THRESHOLD)
    /\ Val(uptime_ret.value).is_active
    /\ IsSome(Val(uptime_ret.value).last_round)

\* the last call built its record from the answer of the own URL
C13_RecordBuilt ==
    /\ UptimeCalled
    /\ uptime_probe.own_queried
    /\ ~C5_NoUsableResponse
    /\ ~uptime_ret.raised
    /\ IsSome(uptime_ret.value)
    /\ IsSome(Val(uptime_ret.value).current_network_round)
    /\ IsSome(Val(uptime_ret.value).last_round)

\* C13: a record built with both a network round and a last_round has
\* confidence 'high' exactly when the round was resolved fresh during the
\* call and 'medium' when the round came from the round cache (a hit within
\* the TTL or the stale fallback).
C13_ConfidenceFollowsProvenance ==
    C13_RecordBuilt
    => /\ Val(uptime_ret.value).current_network_round = round_ret.round
       /\ Val(uptime_ret.value).confidence = "high" <=> ~round_ret.from_cache
       /\ Val(uptime_ret.value).confidence = "medium" <=> round_ret.from_cache

\* the round cache had expired, no query gave a round, the stale round was
\* used and the record built from it has confidence 'medium'
C13_Witness ==
    /\ C13_RecordBuilt
    /\ round_ret.from_cache
    /\ now - Val(network_round_times["testnet"]) >= NETWORK_ROUND_TTL
    /\ Val(uptime_ret.value).confidence = "medium"

\* C6: get_validator_uptime and the round resolution it performs never raise
\* to the caller, whatever the sources answer (transport failure, 4xx, 5xx,
\* invalid JSON, JSON of an unexpected shape).
C6_NeverRaises ==
    UptimeCalled => (~uptime_ret.raised /\ ~round_ret.raised)

\* C7: the reconciliation of the two source verdicts follows the decision
\* table: both null -> (agree, low, false); exactly one non-null -> (agree,
\* medium, that value); both non-null and equal -> (agree, high, that value);
\* both non-null and different -> (disagree, low, the Huginn value).
C7_DecisionTable ==
    IsSome(cv_ret) =>
        LET h == Val(cv_ret).huginn_is_active
            g == Val(cv_ret).gmonads_is_active
            r == <<Val(cv_ret).sources_agree, Val(cv_ret).confidence,
                   Val(cv_ret).recommended_status>>
        IN  /\ h = (IF status_ret.raised THEN None ELSE status_ret.is_active)
            /\ (h = None /\ g = None) => r = <<TRUE, "low", FALSE>>
            /\ (h # None /\ g = None) => r = <<TRUE, "medium", Val(h)>>
            /\ (h = None /\ g # None) => r = <<TRUE, "medium", Val(g)>>
            /\ (h # None /\ g # None /\ Val(h) = Val(g)) => r = <<TRUE, "high", Val(h)>>
            /\ (h # None /\ g # None /\ Val(h) # Val(g)) => r = <<FALSE, "low", Val(h)>>

\* Huginn says active, gmonads says not active: the result disagrees with
\* low confidence and recommends the Huginn value
C7_Witness ==
    /\ op = "validate_validator_status"
    /\ IsSome(cv_ret)
    /\ Val(cv_ret).huginn_is_active = Some(TRUE)
    /\ Val(cv_ret).gmonads_is_active = Some(FALSE)
    /\ ~Val(cv_ret).sources_agree
    /\ Val(cv_ret).confidence = "low"
    /\ Val(cv_ret).recommended_status

\* the last operation called get_validator_uptime while the status cache
\* held a record for the key that was younger than check_interval
CacheWasFresh ==
    /\ op \in {"get_validator_uptime", "is_validator_active", "get_active_set_status",
               "validate_validator_status"}
    /\ IsSome(uptime_probe.prior)
    /\ IsSome(uptime_probe.prior_time)
    /\ now - Val(uptime_probe.prior_time) < CHECK_INTERVAL

\* C30: get_validator_uptime called while the record cached for (network,
\* validator) is younger than check_interval returns that record and calls
\* neither the round resolver (and with it gmonads) nor Huginn; the cached
\* record and its time stay as they were
C30_FreshRecordShortCircuits ==
    CacheWasFresh
    => /\ uptime_ret = [raised |-> FALSE, value |-> uptime_probe.prior]
       /\ ~uptime_probe.round_called
       /\ ~uptime_probe.own_queried
       /\ cache[CacheKey("testnet", "0xAbC")] = uptime_probe.prior
       /\ cache_times[CacheKey("testnet", "0xAbC")] = uptime_probe.prior_time

\* a record cached at time 1 was returned round-TTL seconds later, when the
\* round cache had expired, without a round lookup
C30_Witness ==
    /\ CacheWasFresh
    /\ uptime_probe.prior_time = Some(1)
    /\ now = 1 + NETWORK_ROUND_TTL
    /\ uptime_ret.value = uptime_probe.prior
    /\ ~uptime_probe.round_called
    /\ ~uptime_probe.own_queried

\* the own query of the last call was answered with HTTP 200 and a body that
\* cannot be used: not JSON, a JSON list, the object {}, an uptime that is
\* null, {} or a string, or a last_round that is a string
C31_UnusableBody ==
    /\ UptimeCalled
    /\ uptime_probe.own_queried
    /\ IsSome(uptime_probe.own_response)
    /\ Val(uptime_probe.own_response).status_code = 200
    /\ \/ Val(uptime_probe.own_response).body.kind # "object"
       \/ Val(uptime_probe.own_response).body.uptime_kind \in {"null", "empty", "string"}
       \/ /\ IsSome(Val(uptime_probe.own_response).body.last_round)
          /\ Val(Val(uptime_probe.own_response).body.last_round).t # "num"

\* C31: when the validator's own response is HTTP 200 but cannot be used,
\* get_validator_uptime returns, without raising, the record that was cached
\* for the key before the call (null if there was none).
C31_UnusableFallsBackToCache ==
    C31_UnusableBody => uptime_ret = [raised |-> FALSE, value |-> uptime_probe.prior]

\* C38: every record returned or cached by get_validator_uptime is
\* consistent: is_active implies a round_diff that is at most the threshold,
\* a null round_diff implies is_active false, and the confidence is
\* 'unknown' only for an ever-active validator with a null round_diff
C38_RecordsConsistent ==
    \A u \in C12_Records :
        /\ u.is_active => (IsSome(u.round_diff) /\ Val(u.round_diff) <= ACTIVE_SET_ROUND_THRESHOLD)
        /\ u.round_diff = None => ~u.is_active
        /\ u.confidence = "unknown" => (u.is_ever_active /\ u.round_diff = None)

\* a call built, cached and returned a record of confidence 'unknown' for
\* an ever-active validator, not active and without a round_diff
C38_Witness ==
    /\ op = "get_validator_uptime"
    /\ uptime_probe.own_queried
    /\ IsSome(uptime_ret.value)
    /\ Val(uptime_ret.value).confidence = "unknown"
    /\ Val(uptime_ret.value).is_ever_active
    /\ ~Val(uptime_ret.value).is_active
    /\ cache[CacheKey("testnet", "0xAbC")] = uptime_ret.value
    /\ uptime_probe.prior # uptime_ret.value

\* the last call of get_validator_uptime missed the status cache and ended
\* without a new record: it returned the stale record or null because the own
\* query gave nothing, HTTP 400 or more, a body that is not JSON or empty data
C39_StatusFailed ==
    /\ UptimeCalled
    /\ uptime_probe.own_queried
    /\ ~uptime_ret.raised
    /\ \/ C5_NoUsableResponse
       \/ Val(uptime_probe.own_response).body.kind \in {"empty_list", "empty_object"}
       \/ /\ Val(uptime_probe.own_response).body.kind = "object"
          /\ Val(uptime_probe.own_response).body.uptime_kind \in {"null", "empty"}

\* the round lookup of the last call ended in its failure path: the stale
\* fallback or null
C39_RoundFailed ==
    /\ UptimeCalled
    /\ uptime_probe.round_called
    /\ ~round_ret.raised
    /\ round_ret.from_cache \/ round_ret.round = None

\* C39, as amended: a status lookup that returns the stale record or null
\* leaves the status cache and its timestamps as they were, and a round
\* lookup that ends in the stale fallback or null leaves the round cache and
\* its timestamps as they were; the round cache does change when the round
\* lookup of a failing status lookup resolved a fresh round
C39_FailurePathKeepsItsCache ==
    [][/\ C39_StatusFailed' => (cache' = cache /\ cache_times' = cache_times)
       /\ C39_RoundFailed' => (/\ network_rounds' = network_rounds
                               /\ network_round_times' = network_round_times)]_vars

\* C39, as claimed: a lookup that ends in a failure path modifies neither
\* the round cache nor the status cache nor any of their timestamps
C39_FailurePathModifiesNoCache ==
    [][(C39_StatusFailed' \/ C39_RoundFailed')
          => /\ cache' = cache
             /\ cache_times' = cache_times
             /\ network_rounds' = network_rounds
             /\ network_round_times' = network_round_times]_vars

\* a call a check interval after the record was cached fell back to the
\* stale round and returned the stale record; both caches keep their times
C39_Witness ==
    /\ C39_StatusFailed
    /\ C39_RoundFailed
    /\ round_ret.from_cache
    /\ IsSome(uptime_probe.prior)
    /\ uptime_ret.value = uptime_probe.prior
    /\ now - Val(cache_times[CacheKey("testnet", "0xAbC")]) >= CHECK_INTERVAL
    /\ now - Val(network_round_times["testnet"]) >= NETWORK_ROUND_TTL

\* the last call built a record for a never-active validator (total_events
\* = 0) without a round comparison: the network round or last_round is null
C34_NeverActiveNoComparison ==
    /\ UptimeCalled
    /\ uptime_probe.own_queried
    /\ ~C5_NoUsableResponse
    /\ ~uptime_ret.raised
    /\ IsSome(uptime_ret.value)
    /\ Val(uptime_ret.value).total_events = 0
    /\ \/ Val(uptime_ret.value).current_network_round = None
       \/ Val(uptime_ret.value).last_round = None

\* C34: a never-active record without a round comparison has is_active
\* false, round_diff null and the confidence the round lookup implies:
\* 'medium' when the network round came from the round cache, 'high'
\* otherwise, never 'unknown'
C34_NeverActiveConfidence ==
    C34_NeverActiveNoComparison
    => /\ ~Val(uptime_ret.value).is_active
       /\ Val(uptime_ret.value).round_diff = None
       /\ Val(uptime_ret.value).confidence =
              (IF round_ret.from_cache THEN "medium" ELSE "high")

(***************************************************************************)
(* The monitoring loop with both source clients configured: one iteration  *)
(* for the validator runs ValidatorHealthChecker.check (local metrics,     *)
(* get_validator_status, the block-production test), feeds the lifecycle   *)
(* machine and hands unhealthy results to alerts.alert_critical.  The      *)
(* checks of execution lagging, timestamp validation and system resources  *)
(* are taken to pass.                                                      *)
(***************************************************************************)
\* config["monitoring"].get("alert_threshold", 3)
ALERT_THRESHOLD == 3

STOPPED_PRODUCING == "Node stopped producing blocks!"

\* _infer_validator_status on the local metrics
infer_validator_status(local) ==
    IF local.proposals > 0 THEN Some(TRUE)
    ELSE IF local.block_commits > 0 THEN Some(TRUE)
    ELSE None

\* get_validator_status: u is the outcome of get_validator_uptime, g what
\* gmonads_client.is_validator_in_active_set answers, local the metrics
get_validator_status(u, g, local) ==
    IF IsSome(u.value)
    THEN [is_active |-> Some(Val(u.value).is_active), source |-> "huginn_api",
          huginn_data |-> u.value]
    ELSE IF IsSome(g)
    THEN [is_active |-> g, source |-> "gmonads_api", huginn_data |-> None]
    ELSE [is_active |-> infer_validator_status(local), source |-> "inference",
          huginn_data |-> None]

\* ValidatorHealthChecker.check with metrics fetched: the HealthStatus and
\* the commits count handed back to the loop
check(vs, local, last_block_commits) ==
    LET current_commits == local.block_commits
        stopped == IsSome(last_block_commits) /\ current_commits = Val(last_block_commits)
    IN  [is_healthy |-> ~stopped,
         message |-> IF stopped THEN STOPPED_PRODUCING ELSE "Healthy",
         metrics |-> TRUE,
         is_active_validator |-> vs.is_active,
         huginn_data |-> vs.huginn_data,
         current_commits |-> Some(current_commits)]

\* check when get_monad_metrics reports an error
ConnectionFailed ==
    [is_healthy |-> FALSE, message |-> "Connection failed", metrics |-> FALSE,
     is_active_validator |-> None, huginn_data |-> None, current_commits |-> None]

\* local Prometheus metrics of the node, None when they cannot be fetched
LocalMetrics ==
    {None}
    \cup {Some([proposals |-> 0, block_commits |-> c]) : c \in {0, 5}}
    \cup {Some([proposals |-> 3, block_commits |-> 5])}

\* verdicts of gmonads_client.is_validator_in_active_set
LoopGmonads == OptBool

\* the Huginn servers during one iteration: the network round r, and
\* whether the validator's own URL answers
LoopWorld(g, r, own) ==
    [gmonads |-> IF g = Some(TRUE) THEN "active" ELSE "unavailable",
     hint |-> OkUptime(r, 100), refs |-> AllRefs(OkUptime(r, 100)), own |-> own]

LoopOwnAnswers == {TransportError, OkUptime(100, 100)}

\* main(), "Trigger alert if threshold reached" and the recovery branch
HealthAlert(health_status, alert_ok) ==
    IF health_status.is_healthy
    THEN /\ fails' = 0
         /\ alert_active' = FALSE
         /\ critical_sent' = None
    ELSE /\ fails' = fails + 1
         /\ IF fails + 1 >= ALERT_THRESHOLD /\ ~alert_active
            THEN /\ critical_sent' = Some(health_status.message)
                 /\ alert_active' = alert_ok
            ELSE /\ critical_sent' = None
                 /\ alert_active' = alert_active

\* main(), "Update state machine with validator status" and "Handle state
\* transitions with alerts"
LifecycleStep(health_status) ==
    /\ obs' = [metrics |-> health_status.metrics,
               is_active_validator |-> health_status.is_active_validator,
               huginn_data |-> health_status.huginn_data]
    /\ IF health_status.metrics
       THEN \E r \in {MonitorUpdate(machine, health_status, now)} :
                /\ Len(r.machine.transition_history) <= MaxHistory
                /\ machine' = r.machine
                /\ sm_ret' = r.transition
                /\ update_args' = r.update_args
                /\ transitions_returned' =
                       transitions_returned + (IF IsSome(r.transition) THEN 1 ELSE 0)
                /\ alert_sent' = TransitionAlert(r.transition)
       ELSE /\ sm_ret' = None
            /\ update_args' = None
            /\ alert_sent' = None
            /\ UNCHANGED <<machine, transitions_returned>>

\* one iteration of the loop with the node's metrics available
LoopIteration(g, local, r, own, alert_ok) ==
    /\ loop_iterations < MaxLoopIterations
    /\ alert_ok \/ (fails + 1 >= ALERT_THRESHOLD /\ ~alert_active)
    /\ \E u \in {get_validator_uptime(ClientState("testnet", "0xAbC"), "0xAbC", "testnet",
                                      LoopWorld(g, r, own).gmonads, LoopWorld(g, r, own), now)} :
       \E vs \in {get_validator_status(u, g, local)} :
       \E health_status \in {check(vs, local, last_commits)} :
           /\ ~u.raised
           /\ ClientAfterUptime("testnet", "0xAbC", u)
           /\ vs_ret' = vs
           /\ loop_probe' = [gmonads |-> g, local |-> Some(local)]
           /\ last_commits' = health_status.current_commits
           /\ LifecycleStep(health_status)
           /\ HealthAlert(health_status, alert_ok)
    /\ loop_iterations' = loop_iterations + 1
    /\ op' = "loop"
    /\ status_ret' = NoStatusResult
    /\ cv_ret' = None
    /\ UNCHANGED <<state_file, load_ret, alert_ret, fetch_probe, key_probe, raceVars, proc>>

\* one iteration of the loop while the node's metrics cannot be fetched
LoopIterationNoMetrics(alert_ok) ==
    /\ loop_iterations < MaxLoopIterations
    /\ alert_ok \/ (fails + 1 >= ALERT_THRESHOLD /\ ~alert_active)
    /\ vs_ret' = NoValidatorStatus
    /\ loop_probe' = NoLoopProbe
    /\ last_commits' = ConnectionFailed.current_commits
    /\ LifecycleStep(ConnectionFailed)
    /\ HealthAlert(ConnectionFailed, alert_ok)
    /\ loop_iterations' = loop_iterations + 1
    /\ op' = "loop"
    /\ UNCHANGED <<now, ticks, state_file, load_ret, alert_ret, fetch_probe, key_probe, cbVars, raceVars, roundVars,
                   clientVars, proc>>

\* the loop sleeps between iterations
AdvanceClockLoop ==
    /\ ticks < MaxLoopTicks
    /\ ticks' = ticks + 1
    /\ now' = now + CHECK_INTERVAL
    /\ op' = "tick"
    /\ UNCHANGED <<smVars, load_ret, alert_ret, fetch_probe, key_probe, cbVars, raceVars, roundVars, clientVars, loopVars>>

NextLoop ==
    \/ \E g \in LoopGmonads, local \in LocalMetrics \ {None}, r \in RoundValues,
          own \in LoopOwnAnswers, alert_ok \in BOOLEAN :
          LoopIteration(g, Val(local), r, own, alert_ok)
    \/ \E alert_ok \in BOOLEAN : LoopIterationNoMetrics(alert_ok)
    \/ AdvanceClockLoop

SpecLoop == Init /\ [][NextLoop]_vars


\* the machine went from ACTIVE to INACTIVE and has not left INACTIVE since
C15_LeftActiveSet ==
    /\ machine.current_state = S_INACTIVE
    /\ Len(machine.transition_history) > 0
    /\ machine.transition_history[Len(machine.transition_history)].from_state = S_ACTIVE
    /\ machine.transition_history[Len(machine.transition_history)].to_state = S_INACTIVE

\* C15: while the validator's lifecycle state is INACTIVE after an
\* ACTIVE -> INACTIVE transition, no iteration of the loop dispatches the
\* block-production alert ("Node stopped producing blocks!") for it.
C15_NoBlockAlertWhileInactive ==
    (op = "loop" /\ critical_sent = Some(STOPPED_PRODUCING)) => ~C15_LeftActiveSet

\* the verdicts of the two sources in the last iteration, as the
\* CrossValidator reads them: Huginn's from the record get_validator_uptime
\* returned, gmonads' from is_validator_in_active_set
C16_HuginnVerdict ==
    IF IsSome(uptime_ret.value) THEN Some(Val(uptime_ret.value).is_active) ELSE None

\* C16: with both source clients configured, the is_active value the loop
\* passes to update() equals the CrossValidator's recommended_status for the
\* same pair of verdicts, for every combination including both unavailable.
C16_LoopFollowsCrossValidator ==
    (op = "loop" /\ IsSome(update_args) /\ IsSome(loop_probe.local))
    => Val(update_args)[1] = evaluate_sources(C16_HuginnVerdict, loop_probe.gmonads)[3]

\* the Huginn query for the validator was made in the last iteration and
\* gave no usable response
C17_PrimaryFailed ==
    /\ op = "loop"
    /\ IsSome(loop_probe.local)
    /\ uptime_probe.own_queried
    /\ \/ uptime_probe.own_response = None
       \/ Val(uptime_probe.own_response).status_code >= 400
       \/ Val(uptime_probe.own_response).body.kind = "invalid"

\* C17: whenever the primary source's query for a validator fails and the
\* secondary source has a verdict, get_validator_status returns the
\* secondary's verdict with source gmonads_api, also after the primary has
\* succeeded for that validator earlier.
C17_FallsBackToSecondary ==
    (C17_PrimaryFailed /\ IsSome(loop_probe.gmonads))
    => (vs_ret.source = "gmonads_api" /\ vs_ret.is_active = loop_probe.gmonads)


(***************************************************************************)
(* huginn.py: one HuginnClient serving two networks.  The round cache and  *)
(* the breakers are keyed by network.lower(), the status cache by          *)
(* f"{network.lower()}:{secp_address.lower()}".                            *)
(***************************************************************************)
\* the servers of a network in the two-network specification: every URL
\* fails, or every URL answers with a round
NetWorlds ==
    {[gmonads |-> "no_client", hint |-> TransportError, refs |-> AllRefs(o), own |-> o] :
        o \in {TransportError, OkUptime(ACTIVE_SET_ROUND_THRESHOLD + 101, 100)}}

\* one operation of the client for one network
NetStep(n) ==
    \/ FetchWithRetry(n, ConstAttempts(Some(StatusOnly(404))))
    \/ \E w \in NetWorlds : ResolveRound(n, w)
    \/ \E w \in NetWorlds : GetValidatorUptime(n, "0xAbC", w)

\* the operations follow one another within the recovery time and the TTLs
NextNetworks == \E n \in Networks : NetStep(n)

SpecNetworks == Init /\ [][NextNetworks]_vars

\* what the client holds for network m: its breaker, its round cache entry
\* and its status cache entries
NetworkData(m, cbs, rounds, times, c, ct) ==
    [cb |-> cbs[m], round |-> rounds[m], round_time |-> times[m],
     cache |-> [k \in {x \in CacheKeys : x[1] = m} |-> <<c[k], ct[k]>>]]

\* C22: an operation performed for one network leaves the other network's
\* round cache entry, status cache entries and circuit breaker (state,
\* failure_count, last_failure_time) as they were
C22_NetworksIsolated ==
    [][\A n \in Networks :
          NetStep(n)
          => \A m \in Networks \ {n} :
                NetworkData(m, circuit_breakers', network_rounds', network_round_times',
                            cache', cache_times')
                = NetworkData(m, circuit_breakers, network_rounds, network_round_times,
                              cache, cache_times)]_vars

\* mainnet holds a round, a cached record and a closed breaker while the
\* breaker of testnet has just been opened by failures
C22_Witness ==
    /\ IsSome(network_rounds["mainnet"])
    /\ IsSome(cache[CacheKey("mainnet", "0xAbC")])
    /\ IsSome(circuit_breakers["mainnet"])
    /\ Val(circuit_breakers["mainnet"]).state = CLOSED
    /\ Val(circuit_breakers["mainnet"]).failure_count = 0
    /\ IsSome(circuit_breakers["testnet"])
    /\ Val(circuit_breakers["testnet"]).state = OPEN
    /\ Val(circuit_breakers["testnet"]).last_failure_time = Some(now)
    /\ network_rounds["testnet"] = None

(***************************************************************************)
(* gmonads.py: calls of the key matching on the keys drawn at the start    *)
(***************************************************************************)
\* public_keys_match(key1, key2), and the same call with the arguments swapped
PublicKeysMatch ==
    /\ key_probe.op = "input"
    /\ key_probe' = [key_probe EXCEPT
                        !.op = "public_keys_match",
                        !.ret = Some(public_keys_match(key_probe.key1, key_probe.key2)),
                        !.ret_swapped = Some(public_keys_match(key_probe.key2, key_probe.key1))]
    /\ op' = "public_keys_match"
    /\ UNCHANGED <<raceVars, loopVars, load_ret, alert_ret, fetch_probe, now, ticks, smVars,
                   cbVars, roundVars, clientVars>>

\* is_validator_in_active_set(key1) when get_epoch_validators returns validators
IsValidatorInActiveSet(validators) ==
    /\ key_probe.op = "input"
    /\ key_probe' = [key_probe EXCEPT
                        !.op = "is_validator_in_active_set",
                        !.validators = validators,
                        !.ret = is_validator_in_active_set(key_probe.key1, validators)]
    /\ op' = "is_validator_in_active_set"
    /\ UNCHANGED <<raceVars, loopVars, load_ret, alert_ret, fetch_probe, now, ticks, smVars,
                   cbVars, roundVars, clientVars>>

NextKeys ==
    \/ PublicKeysMatch
    \/ \E validators \in EpochLists(key_probe.key2) : IsValidatorInActiveSet(validators)

SpecKeys == InitKeys /\ [][NextKeys]_vars

\* two strings encode the same point of the curve
SameKey(k1, k2) == \E p \in Curve : k1 \in Encodings(p) /\ k2 \in Encodings(p)

\* C23: public_keys_match is true for two strings that encode the same key
\* in any of the supported formats, with or without 0x and in any letter
\* case, and it is symmetric; and is_validator_in_active_set does not return
\* None for a validator that the epoch list holds under any of these formats
C23_KeyFormatsMatch ==
    /\ key_probe.op = "public_keys_match"
       => /\ key_probe.ret = key_probe.ret_swapped
          /\ SameKey(key_probe.key1, key_probe.key2) => key_probe.ret = Some(TRUE)
    /\ (/\ key_probe.op = "is_validator_in_active_set"
        /\ IsSome(key_probe.validators)
        /\ \E i \in 1..Len(Val(key_probe.validators)) :
              SameKey(key_probe.key1, Val(key_probe.validators)[i].node_id))
       => IsSome(key_probe.ret)

\* a compressed key in capitals behind "0X" was looked up in an epoch list
\* that holds the validator under its uncompressed key, behind another
\* entry, and was found
C23_Witness ==
    /\ key_probe.op = "is_validator_in_active_set"
    /\ key_probe.key1 = KeyString("0X", "upper", "03", <<"a1">>)
    /\ key_probe.validators =
           Some(<<EpochValidator(EmptyKey, "active"),
                  EpochValidator(KeyString("", "lower", "", <<"a1", 3>>), "registered")>>)
    /\ key_probe.ret = Some(FALSE)

(***************************************************************************)
(* main(): the monitoring loop from process start to shutdown, with two    *)
(* validators.  One step is one statement of the loop's skeleton: the      *)
(* `while running` test, one pass of the `for` over the validators (the    *)
(* `if not running: break` test and the whole iteration for a validator),  *)
(* the interruptible sleep, one save_state() of the finally block, the     *)
(* stopping of the servers.  The signal handler can run between any two    *)
(* of them.  Of an iteration only the step of the lifecycle machine is     *)
(* kept.                                                                   *)
(***************************************************************************)
\* what the steps of the process leave alone
procFrame ==
    <<now, ticks, smVars, load_ret, alert_ret, fetch_probe, key_probe, cbVars, raceVars,
      roundVars, clientVars, last_commits, fails, alert_active, critical_sent, vs_ret,
      loop_probe, loop_iterations>>

\* what a validator's check can observe
ShutdownObservations ==
    {[metrics |-> TRUE, is_active_validator |-> Some(TRUE),
      huginn_data |-> Some([is_active |-> TRUE, is_ever_active |-> TRUE, round_diff |-> Some(5)])],
     [metrics |-> TRUE, is_active_validator |-> Some(FALSE),
      huginn_data |-> Some([is_active |-> FALSE, is_ever_active |-> TRUE, round_diff |-> None])]}

\* signal_handler
SignalHandler ==
    /\ proc.pc # "stopped"
    /\ proc.running
    /\ proc' = [proc EXCEPT !.running = FALSE]
    /\ op' = "signal"
    /\ UNCHANGED procFrame

\* `while running:` is tested; when it fails the finally block is entered
WhileTest ==
    /\ proc.pc = "while"
    /\ IF proc.running
       THEN /\ proc.passes < MaxPasses
            /\ proc' = [proc EXCEPT !.pc = "for", !.i = 1, !.passes = @ + 1]
       ELSE proc' = [proc EXCEPT !.pc = "finally", !.i = 1]
    /\ op' = "while"
    /\ UNCHANGED procFrame

\* the `for` over the validators that does not test the flag
ForStep_NoBreak(o) ==
    /\ proc.pc = "for"
    /\ IF proc.i > Len(proc.names)
       THEN /\ proc' = [proc EXCEPT !.pc = "sleep"]
            /\ op' = "for_exit"
       ELSE \E r \in {MonitorUpdate(proc.state_machines[proc.i], o, now)} :
                /\ Len(r.machine.transition_history) <= MaxHistory
                /\ proc' = [proc EXCEPT !.state_machines[proc.i] = r.machine, !.i = @ + 1]
                /\ op' = "check"
    /\ UNCHANGED procFrame

\* one pass of `for validator in validators`: the loop is left at its end
\* or by `if not running: break`, otherwise the validator is checked and
\* its state machine is fed with what the check observed
ForStep(o) ==
    /\ proc.pc = "for"
    /\ IF proc.i > Len(proc.names) \/ ~proc.running
       THEN /\ proc' = [proc EXCEPT !.pc = "sleep"]
            /\ op' = "for_exit"
       ELSE \E r \in {MonitorUpdate(proc.state_machines[proc.i], o, now)} :
                /\ Len(r.machine.transition_history) <= MaxHistory
                /\ proc' = [proc EXCEPT !.state_machines[proc.i] = r.machine, !.i = @ + 1]
                /\ op' = "check"
    /\ UNCHANGED procFrame

\* "Wait for next cycle with interruptible sleep": over after check_interval
\* seconds, or as soon as running is false
Sleep ==
    /\ proc.pc = "sleep"
    /\ proc' = [proc EXCEPT !.pc = "while"]
    /\ op' = "sleep"
    /\ UNCHANGED procFrame

\* save_state() ends in one of three ways: the document is written and
\* True returned; open() fails and the file stays as it was; or the file is
\* opened, which truncates it, and writing fails
SaveResults == {"saved", "open_failed", "write_failed"}

TruncatedFile == [kind |-> "empty", data |-> NotADict]

\* finally: save_state() of the next machine
SaveMachine(result) ==
    /\ proc.pc = "finally"
    /\ proc.i <= Len(proc.names)
    /\ proc' = [proc EXCEPT
                   !.files[SafeName(proc.names[proc.i])] =
                       CASE result = "saved" -> JsonFile(to_dict(proc.state_machines[proc.i]))
                         [] result = "open_failed" -> @
                         [] result = "write_failed" -> TruncatedFile,
                   !.save_called = @ \cup {proc.i},
                   !.save_ok = IF result = "saved" THEN @ \cup {proc.i} ELSE @,
                   !.i = @ + 1]
    /\ op' = "save_state"
    /\ UNCHANGED procFrame

\* finally, after the saves: the servers are stopped and the process ends
StopServers ==
    /\ proc.pc = "finally"
    /\ proc.i > Len(proc.names)
    /\ proc' = [proc EXCEPT !.servers_stopped = TRUE, !.pc = "stopped"]
    /\ op' = "stop_servers"
    /\ UNCHANGED procFrame

\* the process is started again on the same state directory
RestartProcess ==
    /\ proc.pc = "stopped"
    /\ proc.restarts < MaxRestarts
    /\ proc' = ProcessStart(proc.names, proc.files, proc.restarts + 1,
                            [k \in Validators |-> proc.state_machines[k].current_state],
                            proc.save_ok, now)
    /\ op' = "restart_process"
    /\ UNCHANGED procFrame

\* the statements the running process executes
ProcessStep ==
    \/ WhileTest
    \/ \E o \in ShutdownObservations : ForStep(o)
    \/ Sleep
    \/ \E result \in SaveResults : SaveMachine(result)
    \/ StopServers

NextShutdown ==
    \/ ProcessStep
    \/ SignalHandler
    \/ RestartProcess

\* the process keeps executing: a statement that can be executed is executed
SpecShutdown == InitShutdown /\ [][NextShutdown]_vars /\ WF_vars(ProcessStep)

\* validator k resumed, at the start just made, in the state it had at the
\* last shutdown
Resumed(k) == proc.state_machines[k].current_state = proc.prev_states[k]

=============================================================================
